---- MODULE Spec2Model ----
(***************************************************************************)
(* Vacuum World search engine: the state model, the transition function,   *)
(* the heuristic, the five frontier searches (BFS, DFS, UCS, Greedy and    *)
(* A-star) with their resource governor, and Nearest Neighbor.             *)
(*                                                                         *)
(* One behaviour of Spec is one call  algorithm(initial_state, grid_size,  *)
(* progress): Init draws the strategy and the input, the X_Start action is *)
(* the code from function entry to the first loop head, and one X_Loop     *)
(* action is one iteration of the strategy's while loop (or the return     *)
(* behind the loop).  The wall clock is the environment: Tick lets time    *)
(* pass between two loop heads.                                            *)
(***************************************************************************)
EXTENDS Integers, Sequences, FiniteSets, TLC

(***************************************************************************)
(* Bounds of the model.                                                    *)
(***************************************************************************)
\* grid_size ranges over 1..MaxGrid
MaxGrid == 2
\* at most MaxDirt dirty cells in the initial state
MaxDirt == 3
\* the small depth cap DFS is also run with (beside its default)
SmallDepth == 2
\* seconds by which one Tick advances the wall clock
TickSeconds == 31
\* the node cap of search_algorithms.py:24 (1000000 there), scaled down so
\* that the boards above can breach it
MAX_NODES == 6
\* the number of expansions between two progress reports of the five
\* searches (100 in search_algorithms.py:102) and of Nearest Neighbor (10 in
\* greedy_nn.py:56), scaled down so that the runs above reach it twice
ProgressEvery == 3
NnProgressEvery == 2
\* the node cap as search_algorithms.py:24 ships it, for the depth-first runs
\* of DfsSpec, which no cap cuts short
SHIPPED_MAX_NODES == 1000000
\* the boards and depth caps of DfsSpec: grids up to DfsGrid, at most DfsDirt
\* dirty cells, max_depth from 0 to DfsDepth
DfsGrid == 3
DfsDirt == 1
DfsDepth == 4
\* the most actions a world executes from the keyboard or from a direct call
\* (total_cost is the counter capped)
MaxCost == 1
\* the worlds of WorldSpec hold at most WorldDirt dirty cells
WorldDirt == 1
\* at most GuiDirt dirty cells on the board when the window opens
GuiDirt == 2

(***************************************************************************)
(* Program constants.                                                      *)
(***************************************************************************)
TREE_EDGE_LIMIT == 20000
MAX_TIME_SECONDS == 30
DEFAULT_MAX_DEPTH == 100

\* Action enum, state.py:9-15
Action == {"Up", "Down", "Left", "Right", "Suck"}

\* DEFAULT_ALGORITHMS registry, search_algorithms.py:413-420
DEFAULT_ALGORITHMS == {"BFS", "DFS", "UCS", "Greedy", "A*", "Nearest Neighbor"}

\* Python's None and an optional value that is present
None == << >>
Some(x) == << x >>

Abs(n) == IF n < 0 THEN -n ELSE n
Max(a, b) == IF a > b THEN a ELSE b

\* State(robot_pos, dirt_set): a value; equality and hash are by content
State(robot_pos, dirt_set) == [robot_pos |-> robot_pos, dirt_set |-> dirt_set]

\* a goal test that is off by one cell
is_goal_one_left(state) == Cardinality(state.dirt_set) <= 1

\* a goal test that also wants the agent back on cell (0, 0)
is_goal_at_home(state) ==
    Cardinality(state.dirt_set) = 0 /\ state.robot_pos = <<0, 0>>

\* State.is_goal
is_goal(state) == Cardinality(state.dirt_set) = 0

\* a bounds test that lets the agent step onto column or row grid_size
RECURSIVE InGridMoves_inclusive(_, _, _)
InGridMoves_inclusive(moves, state, grid_size) ==
    IF moves = << >> THEN << >>
    ELSE LET action == Head(moves)[1]
             nx == Head(moves)[2][1]
             ny == Head(moves)[2][2]
             rest == InGridMoves_inclusive(Tail(moves), state, grid_size)
         IN IF 0 <= nx /\ nx <= grid_size /\ 0 <= ny /\ ny <= grid_size
            THEN << <<action, State(<<nx, ny>>, state.dirt_set)>> >> \o rest
            ELSE rest

\* a move into a wall that is returned as a pair leaving the agent where it is
RECURSIVE InGridMoves_stay(_, _, _)
InGridMoves_stay(moves, state, grid_size) ==
    IF moves = << >> THEN << >>
    ELSE LET action == Head(moves)[1]
             nx == Head(moves)[2][1]
             ny == Head(moves)[2][2]
             rest == InGridMoves_stay(Tail(moves), state, grid_size)
         IN IF 0 <= nx /\ nx < grid_size /\ 0 <= ny /\ ny < grid_size
            THEN << <<action, State(<<nx, ny>>, state.dirt_set)>> >> \o rest
            ELSE << <<action, state>> >> \o rest

\* keep the elements of a sequence of (action, (nx, ny)) moves that stay in the grid
RECURSIVE InGridMoves(_, _, _)
InGridMoves(moves, state, grid_size) ==
    IF moves = << >> THEN << >>
    ELSE LET action == Head(moves)[1]
             nx == Head(moves)[2][1]
             ny == Head(moves)[2][2]
             rest == InGridMoves(Tail(moves), state, grid_size)
         IN IF 0 <= nx /\ nx < grid_size /\ 0 <= ny /\ ny < grid_size
            THEN << <<action, State(<<nx, ny>>, state.dirt_set)>> >> \o rest
            ELSE rest

\* a Suck that cleans every cell at once
get_successors_suck_all(state, grid_size) ==
    LET successors ==
          InGridMoves(<< <<"Up",    <<state.robot_pos[1], state.robot_pos[2] - 1>> >>,
                         <<"Down",  <<state.robot_pos[1], state.robot_pos[2] + 1>> >>,
                         <<"Left",  <<state.robot_pos[1] - 1, state.robot_pos[2]>> >>,
                         <<"Right", <<state.robot_pos[1] + 1, state.robot_pos[2]>> >> >>,
                      state, grid_size)
    IN IF state.robot_pos \in state.dirt_set
       THEN Append(successors, <<"Suck", State(state.robot_pos, {})>>)
       ELSE successors

\* a successor list that never offers Suck
get_successors_moves_only(state, grid_size) ==
    InGridMoves(<< <<"Up",    <<state.robot_pos[1], state.robot_pos[2] - 1>> >>,
                   <<"Down",  <<state.robot_pos[1], state.robot_pos[2] + 1>> >>,
                   <<"Left",  <<state.robot_pos[1] - 1, state.robot_pos[2]>> >>,
                   <<"Right", <<state.robot_pos[1] + 1, state.robot_pos[2]>> >> >>,
                state, grid_size)

\* a successor list that begins with the Suck pair
get_successors_suck_first(state, grid_size) ==
    LET x == state.robot_pos[1]
        y == state.robot_pos[2]
        moves == << <<"Up",    <<x, y - 1>> >>,
                    <<"Down",  <<x, y + 1>> >>,
                    <<"Left",  <<x - 1, y>> >>,
                    <<"Right", <<x + 1, y>> >> >>
        successors == InGridMoves(moves, state, grid_size)
    IN IF state.robot_pos \in state.dirt_set
       THEN << <<"Suck", State(state.robot_pos, state.dirt_set \ {state.robot_pos})>> >>
            \o successors
       ELSE successors

\* VacuumWorld.get_successors: the ordered list of (action, next_state)
get_successors(state, grid_size) ==
    LET x == state.robot_pos[1]
        y == state.robot_pos[2]
        moves == << <<"Up",    <<x, y - 1>> >>,
                    <<"Down",  <<x, y + 1>> >>,
                    <<"Left",  <<x - 1, y>> >>,
                    <<"Right", <<x + 1, y>> >> >>
        successors == InGridMoves(moves, state, grid_size)
    IN IF state.robot_pos \in state.dirt_set
       THEN Append(successors,
                   <<"Suck", State(state.robot_pos, state.dirt_set \ {state.robot_pos})>>)
       ELSE successors

\* Manhattan distance between two cells
Manhattan(p, q) == Abs(p[1] - q[1]) + Abs(p[2] - q[2])

\* the distance to the farthest dirty cell
MinDistance_farthest(pos, cells) ==
    CHOOSE d \in {Manhattan(pos, c) : c \in cells} :
        \A e \in {Manhattan(pos, c) : c \in cells} : d >= e

\* min over the dirty cells of the distance to the agent (the for loop of heuristic)
MinDistance(pos, cells) ==
    CHOOSE d \in {Manhattan(pos, c) : c \in cells} :
        \A e \in {Manhattan(pos, c) : c \in cells} : d <= e

\* a heuristic that is 0 everywhere but at the goal states
heuristic_goal_far(state, grid_size) == IF state.dirt_set = {} THEN 5 ELSE 0

\* a heuristic that counts every dirty cell twice
heuristic_overcount(state, grid_size) ==
    IF state.dirt_set = {} THEN 0
    ELSE MinDistance(state.robot_pos, state.dirt_set) + 2 * Cardinality(state.dirt_set)

\* SearchAlgorithms.heuristic
heuristic(state, grid_size) ==
    IF state.dirt_set = {} THEN 0
    ELSE MinDistance(state.robot_pos, state.dirt_set) + Cardinality(state.dirt_set) - 1

\* SearchResult(...): explored_nodes and search_tree are optional keywords
SearchResult(path, nodes_expanded, time_taken, memory_used, success, algorithm_name, explored_nodes, search_tree) ==
    [path |-> path, nodes_expanded |-> nodes_expanded, time_taken |-> time_taken,
     memory_used |-> memory_used, success |-> success,
     algorithm_name |-> algorithm_name,
     explored_nodes |-> explored_nodes, search_tree |-> search_tree]

\* the value of  result  while the strategy has not returned
NoResult == SearchResult(<< >>, 0, 0, 0, FALSE, "", None, None)

\* SearchProgress.update(nodes_expanded, frontier_size)
progress_update(progress, nodes, frontier_size) ==
    [progress EXCEPT !.nodes_explored = nodes, !.frontier_size = frontier_size]

\* [s.robot_pos for s in explored]: the positions, in no particular order
Positions(states) == {s.robot_pos : s \in states}

VARIABLES
    algo,               \* the registry name of the strategy called
    grid_size,          \* argument grid_size
    initial_state,      \* argument initial_state
    max_depth,          \* argument max_depth (DFS)
    elapsed,            \* time.time() - start_time, in seconds
    pc,                 \* "start", "loop", "outer"/"walk" (Nearest Neighbor), "done", "raised"
    frontier,           \* deque / list / heap of entries, in insertion order
    frontier_set,       \* BFS, DFS
    explored,           \* a set (BFS, DFS, Greedy) or a dict state -> cost (UCS, A*)
    counter,            \* insertion counter of the priority queues
    nodes_expanded,
    max_frontier_size,
    search_tree,        \* list of (parent, action, child, metric)
    progress,           \* the progress sink passed in
    result,             \* the SearchResult returned, valid when pc = "done"
    current_state,      \* Nearest Neighbor
    remaining_dirt,     \* Nearest Neighbor
    path,               \* Nearest Neighbor
    nearest_dirt,       \* Nearest Neighbor: the target of the current segment
    explored_nodes      \* Nearest Neighbor

\* the window (VacuumWorldGUI) and the threads it starts
VARIABLES
    world,                  \* self.world: grid_size, robot_pos, dirt_set
    selected_algorithm,     \* the registry name selected in the side bar
    buttons_enabled,        \* Button.enabled, the same for every button
    is_searching,
    pending_search_result,  \* None or the result a worker has stored
    search_result,          \* None or the result update() has installed
    search_initial_state,   \* None or the state the last search started from
    search_progress,        \* the SearchProgress shared with the workers
    solution_path,
    current_step,
    auto_running,
    main,                   \* the main thread: its position in run() and solve()
    threads                 \* the worker threads that have not finished

gui == <<world, selected_algorithm, buttons_enabled, is_searching,
         pending_search_result, search_result, search_initial_state,
         search_progress, solution_path, current_step, auto_running, main, threads>>

inputs == <<algo, grid_size, initial_state, max_depth>>
locals == <<pc, frontier, frontier_set, explored, counter, nodes_expanded,
            max_frontier_size, search_tree, progress, result, current_state,
            remaining_dirt, path, nearest_dirt, explored_nodes>>
vars == <<algo, grid_size, initial_state, max_depth, elapsed, pc, frontier,
          frontier_set, explored, counter, nodes_expanded, max_frontier_size,
          search_tree, progress, result, current_state, remaining_dirt, path,
          nearest_dirt, explored_nodes, world, selected_algorithm, buttons_enabled,
          is_searching, pending_search_result, search_result, search_initial_state,
          search_progress, solution_path, current_step, auto_running, main, threads>>

\* the frame of one call as a record: what the code of a strategy reads
Frame ==
    [algo |-> algo, grid_size |-> grid_size, initial_state |-> initial_state,
     max_depth |-> max_depth, elapsed |-> elapsed, pc |-> pc,
     frontier |-> frontier, frontier_set |-> frontier_set, explored |-> explored,
     counter |-> counter, nodes_expanded |-> nodes_expanded,
     max_frontier_size |-> max_frontier_size, search_tree |-> search_tree,
     progress |-> progress, result |-> result, current_state |-> current_state,
     remaining_dirt |-> remaining_dirt, path |-> path,
     nearest_dirt |-> nearest_dirt, explored_nodes |-> explored_nodes,
     max_nodes |-> MAX_NODES]

\* the frame a call starts with (explored is empty in the kind the strategy
\* will give it: a dict for UCS and A-star, a set for the others)
NewFrame(a, s, n, d) ==
    [algo |-> a, grid_size |-> n, initial_state |-> s, max_depth |-> d,
     elapsed |-> 0, pc |-> "start", frontier |-> << >>, frontier_set |-> {},
     explored |-> IF a \in {"UCS", "A*"} THEN << >> ELSE {},
     counter |-> 0, nodes_expanded |-> 0,
     max_frontier_size |-> 0, search_tree |-> << >>,
     progress |-> [nodes_explored |-> 0, frontier_size |-> 0],
     result |-> NoResult, current_state |-> s, remaining_dirt |-> {},
     path |-> << >>, nearest_dirt |-> <<0, 0>>, explored_nodes |-> << >>,
     max_nodes |-> MAX_NODES]

\* the assignments of one step of a strategy
Install(v) ==
    /\ pc' = v.pc
    /\ frontier' = v.frontier
    /\ frontier_set' = v.frontier_set
    /\ explored' = v.explored
    /\ counter' = v.counter
    /\ nodes_expanded' = v.nodes_expanded
    /\ max_frontier_size' = v.max_frontier_size
    /\ search_tree' = v.search_tree
    /\ progress' = v.progress
    /\ result' = v.result
    /\ current_state' = v.current_state
    /\ remaining_dirt' = v.remaining_dirt
    /\ path' = v.path
    /\ nearest_dirt' = v.nearest_dirt
    /\ explored_nodes' = v.explored_nodes
    /\ UNCHANGED <<inputs, elapsed, gui>>

\* return <result> from the strategy
Return(v, r) == [v EXCEPT !.pc = "done", !.result = r]

\* search_tree.append(edge) under the  len(search_tree) < tree_node_limit  guard
CaptureEdge(v, edge) ==
    IF Len(v.search_tree) < TREE_EDGE_LIMIT
    THEN [v EXCEPT !.search_tree = Append(@, edge)]
    ELSE v

\* a report after every expansion
ReportProgress_always(v, frontier_len) ==
    [v EXCEPT !.progress = progress_update(@, v.nodes_expanded, frontier_len)]

\* if progress and nodes_expanded % 100 == 0: progress.update(...)
ReportProgress(v, frontier_len) ==
    IF v.nodes_expanded % ProgressEvery = 0
    THEN [v EXCEPT !.progress = progress_update(@, v.nodes_expanded, frontier_len)]
    ELSE v

\* a deadline test that trips at once
TimedOut_at_once(v) == v.elapsed >= 0

\* the resource governor: the two tests at each loop head
\* (time.time() - start_time > MAX_TIME_SECONDS, nodes_expanded > MAX_NODES)
TimedOut(v) == v.elapsed > MAX_TIME_SECONDS
\* (max_nodes is the cap the frame runs under: MAX_NODES, or the cap as
\* shipped in the runs of DfsSpec)
NodeLimitExceeded(v) == v.nodes_expanded > v.max_nodes

\* a popleft that takes the newest entry
popleft_newest(items) ==
    <<items[Len(items)], SubSeq(items, 1, Len(items) - 1)>>

\* deque.popleft() and list.pop(): the item taken and the rest
popleft(items) == <<Head(items), Tail(items)>>
pop(items) == <<items[Len(items)], SubSeq(items, 1, Len(items) - 1)>>

(***************************************************************************)
(* BFS                                                                     *)
(***************************************************************************)
\* a start that queues the initial state without entering it in frontier_set
bfs_start_unregistered(v) ==
    IF is_goal(v.initial_state)
    THEN Return(v, SearchResult(<< >>, 0, v.elapsed, 1, TRUE, "BFS", None, None))
    ELSE [v EXCEPT !.pc = "loop",
                   !.frontier = << <<v.initial_state, << >> >> >>,
                   !.frontier_set = {},
                   !.max_frontier_size = 1]

\* bfs, function entry to the first loop head (search_algorithms.py:62-81)
bfs_start(v) ==
    IF is_goal(v.initial_state)
    THEN Return(v, SearchResult(<< >>, 0, v.elapsed, 1, TRUE, "BFS", None, None))
    ELSE [v EXCEPT !.pc = "loop",
                   !.frontier = << <<v.initial_state, << >> >> >>,
                   !.frontier_set = {v.initial_state},
                   !.explored = {},
                   !.nodes_expanded = 0,
                   !.max_frontier_size = 1,
                   !.search_tree = << >>]

\* bfs, the for loop over the successors from the i-th on (lines 105-122)
RECURSIVE bfs_children(_, _, _, _, _)
bfs_children(v, state, spath, successors, i) ==
    IF i > Len(successors) THEN v
    ELSE LET action == successors[i][1]
             next_state == successors[i][2]
             v1 == CaptureEdge(v, <<state, action, next_state, Len(spath) + 1>>)
         IN IF next_state \notin v1.explored /\ next_state \notin v1.frontier_set
            THEN IF is_goal(next_state)
                 THEN Return(v1, SearchResult(Append(spath, action), v1.nodes_expanded,
                                              v1.elapsed, v1.max_frontier_size, TRUE, "BFS",
                                              Some(Positions(v1.explored)),
                                              Some(v1.search_tree)))
                 ELSE bfs_children(
                        [v1 EXCEPT !.frontier = Append(@, <<next_state, Append(spath, action)>>),
                                   !.frontier_set = @ \cup {next_state}],
                        state, spath, successors, i + 1)
            ELSE bfs_children(v1, state, spath, successors, i + 1)

\* bfs, one iteration of the while loop or the return behind it (lines 83-127)
bfs_loop(v) ==
    IF v.frontier = << >>
    THEN Return(v, SearchResult(<< >>, v.nodes_expanded, v.elapsed, v.max_frontier_size,
                                FALSE, "BFS", Some(Positions(v.explored)),
                                Some(v.search_tree)))
    ELSE IF TimedOut(v)
    THEN Return(v, SearchResult(<< >>, v.nodes_expanded, v.elapsed, v.max_frontier_size,
                                FALSE, "BFS (timeout)", None, None))
    ELSE IF NodeLimitExceeded(v)
    THEN Return(v, SearchResult(<< >>, v.nodes_expanded, v.elapsed, v.max_frontier_size,
                                FALSE, "BFS (node limit)", Some(Positions(v.explored)),
                                Some(v.search_tree)))
    ELSE LET state == popleft(v.frontier)[1][1]
             spath == popleft(v.frontier)[1][2]
             v1 == [v EXCEPT !.max_frontier_size = Max(@, Len(v.frontier)),
                             !.frontier = popleft(v.frontier)[2]]
         IN IF state \notin v1.frontier_set
            THEN [v1 EXCEPT !.pc = "raised"]   \* frontier_set.remove: KeyError
            ELSE LET v2 == [v1 EXCEPT !.frontier_set = @ \ {state},
                                      !.explored = @ \cup {state},
                                      !.nodes_expanded = @ + 1]
                     v3 == ReportProgress(v2, Len(v2.frontier))
                 IN bfs_children(v3, state, spath,
                                 get_successors(state, v.grid_size), 1)

(***************************************************************************)
(* DFS                                                                     *)
(***************************************************************************)
\* dfs, function entry to the first loop head (search_algorithms.py:137-156)
dfs_start(v) ==
    IF is_goal(v.initial_state)
    THEN Return(v, SearchResult(<< >>, 0, v.elapsed, 1, TRUE, "DFS", None, None))
    ELSE [v EXCEPT !.pc = "loop",
                   !.frontier = << <<v.initial_state, << >> >> >>,
                   !.frontier_set = {v.initial_state},
                   !.explored = {},
                   !.nodes_expanded = 0,
                   !.max_frontier_size = 1,
                   !.search_tree = << >>]

\* a for loop that pushes every child not yet explored, queued or not
RECURSIVE dfs_children_explored_only(_, _, _, _, _)
dfs_children_explored_only(v, state, spath, successors, i) ==
    IF i > Len(successors) THEN v
    ELSE LET action == successors[i][1]
             next_state == successors[i][2]
             v1 == CaptureEdge(v, <<state, action, next_state, Len(spath) + 1>>)
         IN IF next_state \notin v1.explored
            THEN dfs_children_explored_only(
                   [v1 EXCEPT !.frontier = Append(@, <<next_state, Append(spath, action)>>),
                              !.frontier_set = @ \cup {next_state}],
                   state, spath, successors, i + 1)
            ELSE dfs_children_explored_only(v1, state, spath, successors, i + 1)

\* dfs, the for loop over the successors from the i-th on (lines 195-201)
RECURSIVE dfs_children(_, _, _, _, _)
dfs_children(v, state, spath, successors, i) ==
    IF i > Len(successors) THEN v
    ELSE LET action == successors[i][1]
             next_state == successors[i][2]
             v1 == CaptureEdge(v, <<state, action, next_state, Len(spath) + 1>>)
         IN IF next_state \notin v1.explored /\ next_state \notin v1.frontier_set
            THEN dfs_children(
                   [v1 EXCEPT !.frontier = Append(@, <<next_state, Append(spath, action)>>),
                              !.frontier_set = @ \cup {next_state}],
                   state, spath, successors, i + 1)
            ELSE dfs_children(v1, state, spath, successors, i + 1)

\* a depth test that never skips an entry
DepthExceeded_never(v, spath) == FALSE

\* if len(path) > max_depth: continue (lines 173-174)
DepthExceeded(v, spath) == Len(spath) > v.max_depth

\* dfs, one iteration of the while loop or the return behind it (lines 158-204)
dfs_loop(v) ==
    IF v.frontier = << >>
    THEN Return(v, SearchResult(<< >>, v.nodes_expanded, v.elapsed, v.max_frontier_size,
                                FALSE, "DFS", None, None))
    ELSE IF TimedOut(v)
    THEN Return(v, SearchResult(<< >>, v.nodes_expanded, v.elapsed, v.max_frontier_size,
                                FALSE, "DFS (timeout)", Some(Positions(v.explored)), None))
    ELSE IF NodeLimitExceeded(v)
    THEN Return(v, SearchResult(<< >>, v.nodes_expanded, v.elapsed, v.max_frontier_size,
                                FALSE, "DFS (node limit)", Some(Positions(v.explored)), None))
    ELSE LET state == pop(v.frontier)[1][1]
             spath == pop(v.frontier)[1][2]
             v1 == [v EXCEPT !.max_frontier_size = Max(@, Len(v.frontier)),
                             !.frontier = pop(v.frontier)[2],
                             !.frontier_set = @ \ {state}]
         IN IF DepthExceeded(v, spath)
            THEN v1                              \* continue
            ELSE LET v2 == [v1 EXCEPT !.explored = @ \cup {state},
                                      !.nodes_expanded = @ + 1]
                     v3 == ReportProgress(v2, Len(v2.frontier))
                 IN IF is_goal(state)
                    THEN Return(v3, SearchResult(spath, v3.nodes_expanded, v3.elapsed,
                                                 v3.max_frontier_size, TRUE, "DFS",
                                                 Some(Positions(v3.explored)),
                                                 Some(v3.search_tree)))
                    ELSE dfs_children(v3, state, spath,
                                      get_successors(state, v.grid_size), 1)

(***************************************************************************)
(* Priority queues: heapq on tuples that start with (priority, counter)    *)
(***************************************************************************)
\* a comparison that puts the newer of two entries of equal priority first
TupleLE_newest_first(a, b) == a[1] < b[1] \/ (a[1] = b[1] /\ a[2] >= b[2])

\* tuple comparison on the (priority, counter) prefix
TupleLE(a, b) == a[1] < b[1] \/ (a[1] = b[1] /\ a[2] <= b[2])

\* a heappop that returns the newest entry
HeapMinIndex_newest(heap) == Len(heap)

\* index of the entry heapq.heappop returns: the smallest tuple
HeapMinIndex(heap) ==
    CHOOSE i \in 1 .. Len(heap) : \A j \in 1 .. Len(heap) : TupleLE(heap[i], heap[j])

\* a heappop that leaves the entry in the heap
HeapRest_keep(heap) == heap

\* the heap after heappop
HeapRest(heap) ==
    LET i == HeapMinIndex(heap)
    IN SubSeq(heap, 1, i - 1) \o SubSeq(heap, i + 1, Len(heap))

\* a pop test that skips nothing
Settled_never(dict, state, cost) == FALSE

\* if state in explored and explored[state] <= cost: continue
\* (search_algorithms.py:239 and 374)
Settled(dict, state, cost) == state \in DOMAIN dict /\ dict[state] <= cost

\* explored[state] = cost on a dict
DictSet(dict, key, value) ==
    [k \in DOMAIN dict \cup {key} |-> IF k = key THEN value ELSE dict[k]]

(***************************************************************************)
(* UCS                                                                     *)
(***************************************************************************)
\* ucs, function entry to the first loop head (search_algorithms.py:213-221)
ucs_start(v) ==
    [v EXCEPT !.pc = "loop",
              !.counter = 0,
              !.frontier = << <<0, 0, v.initial_state, << >> >> >>,
              !.explored = << >>,
              !.nodes_expanded = 0,
              !.max_frontier_size = 1,
              !.search_tree = << >>]

\* ucs: whether a child is pushed (line 265)
ucs_push(dict, next_state, new_cost) ==
    next_state \notin DOMAIN dict \/ dict[next_state] > new_cost

\* ucs, the for loop over the successors from the i-th on (lines 261-267)
RECURSIVE ucs_children(_, _, _, _, _, _)
ucs_children(v, state, spath, cost, successors, i) ==
    IF i > Len(successors) THEN v
    ELSE LET action == successors[i][1]
             next_state == successors[i][2]
             new_cost == cost + 1
             v1 == CaptureEdge(v, <<state, action, next_state, new_cost>>)
         IN IF ucs_push(v1.explored, next_state, new_cost)
            THEN ucs_children(
                   [v1 EXCEPT !.counter = @ + 1,
                              !.frontier = Append(@, <<new_cost, v1.counter + 1, next_state,
                                                       Append(spath, action)>>)],
                   state, spath, cost, successors, i + 1)
            ELSE ucs_children(v1, state, spath, cost, successors, i + 1)

\* ucs, one iteration of the while loop or the return behind it (lines 223-272)
ucs_loop(v) ==
    IF v.frontier = << >>
    THEN Return(v, SearchResult(<< >>, v.nodes_expanded, v.elapsed, v.max_frontier_size,
                                FALSE, "UCS", Some(Positions(DOMAIN v.explored)),
                                Some(v.search_tree)))
    ELSE IF TimedOut(v)
    THEN Return(v, SearchResult(<< >>, v.nodes_expanded, v.elapsed, v.max_frontier_size,
                                FALSE, "UCS (timeout)", Some(Positions(DOMAIN v.explored)),
                                Some(v.search_tree)))
    ELSE IF NodeLimitExceeded(v)
    THEN Return(v, SearchResult(<< >>, v.nodes_expanded, v.elapsed, v.max_frontier_size,
                                FALSE, "UCS (node limit)", Some(Positions(DOMAIN v.explored)),
                                Some(v.search_tree)))
    ELSE LET entry == v.frontier[HeapMinIndex(v.frontier)]
             cost == entry[1]
             state == entry[3]
             spath == entry[4]
             v1 == [v EXCEPT !.max_frontier_size = Max(@, Len(v.frontier)),
                             !.frontier = HeapRest(@)]
         IN IF Settled(v1.explored, state, cost)
            THEN v1                              \* continue
            ELSE LET v2 == [v1 EXCEPT !.explored = DictSet(@, state, cost),
                                      !.nodes_expanded = @ + 1]
                     v3 == ReportProgress(v2, Len(v2.frontier))
                 IN IF is_goal(state)
                    THEN Return(v3, SearchResult(spath, v3.nodes_expanded, v3.elapsed,
                                                 v3.max_frontier_size, TRUE, "UCS",
                                                 Some(Positions(DOMAIN v3.explored)),
                                                 Some(v3.search_tree)))
                    ELSE ucs_children(v3, state, spath, cost,
                                      get_successors(state, v.grid_size), 1)

(***************************************************************************)
(* Greedy best-first                                                       *)
(***************************************************************************)
\* greedy, function entry to the first loop head (search_algorithms.py:281-290)
greedy_start(v) ==
    [v EXCEPT !.pc = "loop",
              !.counter = 0,
              !.frontier = << <<heuristic(v.initial_state, v.grid_size), 0,
                                v.initial_state, << >> >> >>,
              !.explored = {},
              !.nodes_expanded = 0,
              !.max_frontier_size = 1,
              !.search_tree = << >>]

\* greedy, the for loop over the successors from the i-th on (lines 326-332)
RECURSIVE greedy_children(_, _, _, _, _)
greedy_children(v, state, spath, successors, i) ==
    IF i > Len(successors) THEN v
    ELSE LET action == successors[i][1]
             next_state == successors[i][2]
             h == heuristic(next_state, v.grid_size)
             v1 == CaptureEdge(v, <<state, action, next_state, h>>)
         IN IF next_state \notin v1.explored
            THEN greedy_children(
                   [v1 EXCEPT !.counter = @ + 1,
                              !.frontier = Append(@, <<h, v1.counter + 1, next_state,
                                                       Append(spath, action)>>)],
                   state, spath, successors, i + 1)
            ELSE greedy_children(v1, state, spath, successors, i + 1)

\* greedy, one iteration of the while loop or the return behind it (lines 292-337)
greedy_loop(v) ==
    IF v.frontier = << >>
    THEN Return(v, SearchResult(<< >>, v.nodes_expanded, v.elapsed, v.max_frontier_size,
                                FALSE, "Greedy", Some(Positions(v.explored)),
                                Some(v.search_tree)))
    ELSE IF TimedOut(v)
    THEN Return(v, SearchResult(<< >>, v.nodes_expanded, v.elapsed, v.max_frontier_size,
                                FALSE, "Greedy (timeout)", None, None))
    ELSE IF NodeLimitExceeded(v)
    THEN Return(v, SearchResult(<< >>, v.nodes_expanded, v.elapsed, v.max_frontier_size,
                                FALSE, "Greedy (node limit)", None, None))
    ELSE LET entry == v.frontier[HeapMinIndex(v.frontier)]
             state == entry[3]
             spath == entry[4]
             v1 == [v EXCEPT !.max_frontier_size = Max(@, Len(v.frontier)),
                             !.frontier = HeapRest(@)]
         IN IF state \in v1.explored
            THEN v1                              \* continue
            ELSE LET v2 == [v1 EXCEPT !.explored = @ \cup {state},
                                      !.nodes_expanded = @ + 1]
                     v3 == ReportProgress(v2, Len(v2.frontier))
                 IN IF is_goal(state)
                    THEN Return(v3, SearchResult(spath, v3.nodes_expanded, v3.elapsed,
                                                 v3.max_frontier_size, TRUE, "Greedy",
                                                 Some(Positions(v3.explored)),
                                                 Some(v3.search_tree)))
                    ELSE greedy_children(v3, state, spath,
                                         get_successors(state, v.grid_size), 1)

(***************************************************************************)
(* A-star                                                                  *)
(***************************************************************************)
\* astar, function entry to the first loop head (search_algorithms.py:347-356)
astar_start(v) ==
    [v EXCEPT !.pc = "loop",
              !.counter = 0,
              !.frontier = << <<heuristic(v.initial_state, v.grid_size), 0, 0,
                                v.initial_state, << >> >> >>,
              !.explored = << >>,
              !.nodes_expanded = 0,
              !.max_frontier_size = 1,
              !.search_tree = << >>]

\* a push test that never pushes a child
astar_push_never(dict, next_state, new_g) == FALSE

\* astar: whether a child is pushed (line 401)
astar_push(dict, next_state, new_g) ==
    next_state \notin DOMAIN dict \/ dict[next_state] > new_g

\* astar, the for loop over the successors from the i-th on (lines 396-404)
RECURSIVE astar_children(_, _, _, _, _, _)
astar_children(v, state, spath, g, successors, i) ==
    IF i > Len(successors) THEN v
    ELSE LET action == successors[i][1]
             next_state == successors[i][2]
             new_g == g + 1
             h == heuristic(next_state, v.grid_size)
             v1 == CaptureEdge(v, <<state, action, next_state, new_g + h>>)
         IN IF astar_push(v1.explored, next_state, new_g)
            THEN astar_children(
                   [v1 EXCEPT !.counter = @ + 1,
                              !.frontier = Append(@, <<new_g + h, v1.counter + 1, new_g,
                                                       next_state, Append(spath, action)>>)],
                   state, spath, g, successors, i + 1)
            ELSE astar_children(v1, state, spath, g, successors, i + 1)

\* astar, one iteration of the while loop or the return behind it (lines 358-409)
astar_loop(v) ==
    IF v.frontier = << >>
    THEN Return(v, SearchResult(<< >>, v.nodes_expanded, v.elapsed, v.max_frontier_size,
                                FALSE, "A*", Some(Positions(DOMAIN v.explored)),
                                Some(v.search_tree)))
    ELSE IF TimedOut(v)
    THEN Return(v, SearchResult(<< >>, v.nodes_expanded, v.elapsed, v.max_frontier_size,
                                FALSE, "A* (timeout)", Some(Positions(DOMAIN v.explored)),
                                Some(v.search_tree)))
    ELSE IF NodeLimitExceeded(v)
    THEN Return(v, SearchResult(<< >>, v.nodes_expanded, v.elapsed, v.max_frontier_size,
                                FALSE, "A* (node limit)", Some(Positions(DOMAIN v.explored)),
                                Some(v.search_tree)))
    ELSE LET entry == v.frontier[HeapMinIndex(v.frontier)]
             g == entry[3]
             state == entry[4]
             spath == entry[5]
             v1 == [v EXCEPT !.max_frontier_size = Max(@, Len(v.frontier)),
                             !.frontier = HeapRest(@)]
         IN IF Settled(v1.explored, state, g)
            THEN v1                              \* continue
            ELSE LET v2 == [v1 EXCEPT !.explored = DictSet(@, state, g),
                                      !.nodes_expanded = @ + 1]
                     v3 == ReportProgress(v2, Len(v2.frontier))
                 IN IF is_goal(state)
                    THEN Return(v3, SearchResult(spath, v3.nodes_expanded, v3.elapsed,
                                                 v3.max_frontier_size, TRUE, "A*",
                                                 Some(Positions(DOMAIN v3.explored)),
                                                 Some(v3.search_tree)))
                    ELSE astar_children(v3, state, spath, g,
                                        get_successors(state, v.grid_size), 1)

(***************************************************************************)
(* Nearest Neighbor                                                        *)
(***************************************************************************)
\* greedy_nearest_neighbor, function entry to the outer loop head (greedy_nn.py:19-26)
nn_start(v) ==
    [v EXCEPT !.pc = "outer",
              !.current_state = v.initial_state,
              !.remaining_dirt = v.initial_state.dirt_set,
              !.path = << >>,
              !.nodes_expanded = 0,
              !.explored_nodes = << >>,
              !.search_tree = << >>]

\* a selection loop that ends with a cell at the greatest distance
NearestCandidates_farthest(pos, cells) ==
    {c \in cells : \A e \in cells : Manhattan(pos, c) >= Manhattan(pos, e)}

\* the cells the selection loop (lines 31-38) can end with: the first cell at
\* minimal distance in the iteration order of the set, which is any of them
NearestCandidates(pos, cells) ==
    {c \in cells : \A e \in cells : Manhattan(pos, c) <= Manhattan(pos, e)}

\* the outer loop head: return when no dirt remains, else select the target (lines 28-41, 90-99)
nn_outer(v, dirt_pos) ==
    IF v.remaining_dirt = {}
    THEN Return(v, SearchResult(v.path, v.nodes_expanded, v.elapsed,
                                Cardinality(v.initial_state.dirt_set), TRUE,
                                "Nearest Neighbor", Some(v.explored_nodes),
                                Some(v.search_tree)))
    ELSE [v EXCEPT !.pc = "walk", !.nearest_dirt = dirt_pos]

\* the edges record_step adds: every successor of current_state with its distance to the target
RECURSIVE nn_edges(_, _, _, _)
nn_edges(current, successors, target, i) ==
    IF i > Len(successors) THEN << >>
    ELSE << <<current, successors[i][1], successors[i][2],
              Manhattan(successors[i][2].robot_pos, target)>> >>
         \o nn_edges(current, successors, target, i + 1)

\* a record_step that forgets to advance current_state
record_step_stay(v, action, next_s) ==
    [v EXCEPT !.explored_nodes = Append(@, v.current_state.robot_pos),
              !.path = Append(@, action),
              !.nodes_expanded = @ + 1]

\* record_step(action, next_s) (lines 44-57)
record_step(v, action, next_s) ==
    LET v1 == [v EXCEPT !.search_tree =
                            @ \o nn_edges(v.current_state,
                                          get_successors(v.current_state, v.grid_size),
                                          v.nearest_dirt, 1),
                        !.explored_nodes = Append(@, v.current_state.robot_pos),
                        !.current_state = next_s,
                        !.path = Append(@, action),
                        !.nodes_expanded = @ + 1]
    IN IF v1.nodes_expanded % NnProgressEvery = 0
       THEN [v1 EXCEPT !.progress = progress_update(@, v1.nodes_expanded,
                                                    Cardinality(v1.remaining_dirt))]
       ELSE v1

\* one step of the segment towards nearest_dirt: a horizontal move while the
\* columns differ (lines 60-69), then a vertical move while the rows differ
\* (lines 72-81), then Suck and the discard (lines 84-88)
nn_walk(v) ==
    LET cx == v.current_state.robot_pos[1]
        cy == v.current_state.robot_pos[2]
        target_x == v.nearest_dirt[1]
        target_y == v.nearest_dirt[2]
    IN IF cx # target_x
       THEN IF cx < target_x
            THEN record_step(v, "Right", State(<<cx + 1, cy>>, v.current_state.dirt_set))
            ELSE record_step(v, "Left", State(<<cx - 1, cy>>, v.current_state.dirt_set))
       ELSE IF cy # target_y
       THEN IF cy < target_y
            THEN record_step(v, "Down", State(<<cx, cy + 1>>, v.current_state.dirt_set))
            ELSE record_step(v, "Up", State(<<cx, cy - 1>>, v.current_state.dirt_set))
       ELSE LET v1 == record_step(v, "Suck",
                                  State(v.current_state.robot_pos,
                                        v.current_state.dirt_set \ {v.current_state.robot_pos}))
            IN [v1 EXCEPT !.pc = "outer",
                          !.remaining_dirt = @ \ {v1.current_state.robot_pos}]

(***************************************************************************)
(* VacuumWorld.get_state_path                                              *)
(***************************************************************************)
\* the inner for loop: the next_state of the first pair whose action matches,
\* or the current state when there is none (vacuum_world.py:147-155)
RECURSIVE MatchAction(_, _, _, _)
MatchAction(successors, action, current, i) ==
    IF i > Len(successors) THEN current
    ELSE IF successors[i][1] = action THEN successors[i][2]
    ELSE MatchAction(successors, action, current, i + 1)

\* an outer loop that appends nothing for an action that matches no pair
RECURSIVE StatesFrom_skip(_, _, _, _, _)
StatesFrom_skip(spath, i, current, states, n) ==
    IF i > Len(spath) THEN states
    ELSE LET next == MatchAction(get_successors(current, n), spath[i], current, 1)
             found == \E k \in 1 .. Len(get_successors(current, n)) :
                          get_successors(current, n)[k][1] = spath[i]
         IN StatesFrom_skip(spath, i + 1, next,
                            IF found THEN Append(states, next) ELSE states, n)

\* the outer for loop from the i-th action on (vacuum_world.py:143-155)
RECURSIVE StatesFrom(_, _, _, _, _)
StatesFrom(spath, i, current, states, n) ==
    IF i > Len(spath) THEN states
    ELSE LET next == MatchAction(get_successors(current, n), spath[i], current, 1)
         IN StatesFrom(spath, i + 1, next, Append(states, next), n)

\* get_state_path(path, start_state) on a world of size n
get_state_path(spath, start_state, n) ==
    StatesFrom(spath, 1, start_state, << start_state >>, n)

(***************************************************************************)
(* The strategies as functions: the result of a call that never times out  *)
(***************************************************************************)
RECURSIVE bfs_run(_)
bfs_run(v) == IF v.pc = "loop" THEN bfs_run(bfs_loop(v)) ELSE v

\* SearchAlgorithms.bfs(initial_state, grid_size) with the clock below its deadline
bfs(state, n) == bfs_run(bfs_start(NewFrame("BFS", state, n, DEFAULT_MAX_DEPTH))).result

RECURSIVE ucs_run(_)
ucs_run(v) == IF v.pc = "loop" THEN ucs_run(ucs_loop(v)) ELSE v

\* SearchAlgorithms.ucs(initial_state, grid_size) with the clock below its deadline
ucs(state, n) == ucs_run(ucs_start(NewFrame("UCS", state, n, DEFAULT_MAX_DEPTH))).result

RECURSIVE greedy_run(_)
greedy_run(v) == IF v.pc = "loop" THEN greedy_run(greedy_loop(v)) ELSE v

\* SearchAlgorithms.greedy(initial_state, grid_size) with the clock below its deadline
greedy(state, n) ==
    greedy_run(greedy_start(NewFrame("Greedy", state, n, DEFAULT_MAX_DEPTH))).result

RECURSIVE astar_run(_)
astar_run(v) == IF v.pc = "loop" THEN astar_run(astar_loop(v)) ELSE v

\* SearchAlgorithms.astar(initial_state, grid_size) with the clock below its deadline
astar(state, n) ==
    astar_run(astar_start(NewFrame("A*", state, n, DEFAULT_MAX_DEPTH))).result

\* the frames one step of greedy_nearest_neighbor can leave behind
nn_step(v) ==
    CASE v.pc = "start" -> {nn_start(v)}
      [] v.pc = "outer" /\ v.remaining_dirt = {} -> {nn_outer(v, v.nearest_dirt)}
      [] v.pc = "outer" /\ v.remaining_dirt # {} ->
            {nn_outer(v, dirt_pos) :
                dirt_pos \in NearestCandidates(v.current_state.robot_pos, v.remaining_dirt)}
      [] v.pc = "walk" -> {nn_walk(v)}
      [] OTHER -> {}

RECURSIVE nn_runs(_)
nn_runs(v) == IF v.pc = "done" THEN {v.result} ELSE UNION {nn_runs(w) : w \in nn_step(v)}

\* the results greedy_nearest_neighbor(initial_state, grid_size) can return
greedy_nearest_neighbor(state, n) ==
    nn_runs(NewFrame("Nearest Neighbor", state, n, DEFAULT_MAX_DEPTH))

\* cells of the n x n grid
Cells(n) == (0 .. n - 1) \X (0 .. n - 1)

\* the inputs of a call: agent and dirt inside the grid
DirtSets(n) == {d \in SUBSET Cells(n) : Cardinality(d) <= MaxDirt}

(***************************************************************************)
(* The window: VacuumWorldGUI, its main loop and its worker threads        *)
(***************************************************************************)
Min(a, b) == IF a < b THEN a ELSE b

\* the grid sizes set_grid_size accepts (vacuum_world.py:13-14)
MIN_GRID_SIZE == 2
MAX_GRID_SIZE == 10

\* VacuumWorld(grid_size) (vacuum_world.py:21-28); path_history and
\* performance_points, which only the drawing code reads, are not carried
VacuumWorld(n) ==
    [grid_size |-> n, robot_pos |-> <<0, 0>>, dirt_set |-> {},
     action_history |-> << >>, total_cost |-> 0]

\* the bounds test of set_robot_position and add_dirt
InWorld(w, cell) ==
    0 <= cell[1] /\ cell[1] < w.grid_size /\ 0 <= cell[2] /\ cell[2] < w.grid_size

\* VacuumWorld.reset
reset(w) ==
    [w EXCEPT !.robot_pos = <<0, 0>>, !.dirt_set = {},
              !.action_history = << >>, !.total_cost = 0]

\* VacuumWorld.set_robot_position
set_robot_position(w, cell) ==
    IF InWorld(w, cell) THEN [w EXCEPT !.robot_pos = cell] ELSE w

\* VacuumWorld.add_dirt
add_dirt(w, cell) ==
    IF InWorld(w, cell) THEN [w EXCEPT !.dirt_set = @ \cup {cell}] ELSE w

\* VacuumWorld.remove_dirt
remove_dirt(w, cell) == [w EXCEPT !.dirt_set = @ \ {cell}]

\* VacuumWorld.toggle_dirt
toggle_dirt(w, cell) ==
    IF cell \in w.dirt_set THEN remove_dirt(w, cell) ELSE add_dirt(w, cell)

\* VacuumWorld.random_dirt; draws: the cells whose draw random.random() fell
\* below probability
random_dirt(w, draws) ==
    [w EXCEPT !.dirt_set =
        {c \in (0 .. w.grid_size - 1) \X (0 .. w.grid_size - 1) : c \in draws}]

\* a set_grid_size that keeps the dirt and the agent where they are
set_grid_size_keep(w, size) ==
    [w EXCEPT !.grid_size = Max(MIN_GRID_SIZE, Min(MAX_GRID_SIZE, size))]

\* VacuumWorld.set_grid_size
set_grid_size(w, size) ==
    LET n == Max(MIN_GRID_SIZE, Min(MAX_GRID_SIZE, size))
    IN [w EXCEPT !.grid_size = n,
                 !.dirt_set = {c \in @ : c[1] < n /\ c[2] < n},
                 !.robot_pos = <<Min(@[1], n - 1), Min(@[2], n - 1)>>]

\* VacuumWorld.get_state
get_state(w) == State(w.robot_pos, w.dirt_set)

\* an execute_action that removes the dirt under the agent on every action
execute_action_sweep(w, action) ==
    LET x == w.robot_pos[1]
        y == w.robot_pos[2]
        new_x == CASE action = "Left" -> Max(0, x - 1)
                   [] action = "Right" -> Min(w.grid_size - 1, x + 1)
                   [] OTHER -> x
        new_y == CASE action = "Up" -> Max(0, y - 1)
                   [] action = "Down" -> Min(w.grid_size - 1, y + 1)
                   [] OTHER -> y
    IN [w EXCEPT !.robot_pos = <<new_x, new_y>>,
                 !.dirt_set = @ \ {w.robot_pos},
                 !.action_history = Append(@, action),
                 !.total_cost = @ + 1]

\* VacuumWorld.execute_action (vacuum_world.py:87-118): the world it leaves
execute_action(w, action) ==
    LET x == w.robot_pos[1]
        y == w.robot_pos[2]
        new_x == CASE action = "Left" -> Max(0, x - 1)
                   [] action = "Right" -> Min(w.grid_size - 1, x + 1)
                   [] OTHER -> x
        new_y == CASE action = "Up" -> Max(0, y - 1)
                   [] action = "Down" -> Min(w.grid_size - 1, y + 1)
                   [] OTHER -> y
        dirt == IF action = "Suck" /\ w.robot_pos \in w.dirt_set
                THEN w.dirt_set \ {w.robot_pos}
                ELSE w.dirt_set
    IN [w EXCEPT !.robot_pos = <<new_x, new_y>>,
                 !.dirt_set = dirt,
                 !.action_history = Append(@, action),
                 !.total_cost = @ + 1]

\* VacuumWorld.execute_action: the value it returns (vacuum_world.py:120)
execute_action_returns(w, action) ==
    Cardinality(execute_action(w, action).dirt_set) = 0

\* the callables solve() can be given: a registry name stands for the
\* registered function, "custom" for a callable passed to run_with_algorithm
GuiAlgorithms == {"BFS", "Nearest Neighbor"}

\* the keys handle_keyboard is sent
Keys == {"SPACE"}

\* SearchProgress(): not active, counters at zero
NewSearchProgress ==
    [is_active |-> FALSE, algorithm_name |-> "", nodes_explored |-> 0, frontier_size |-> 0]

\* SearchProgress.start(algorithm_name) and SearchProgress.stop()
progress_start(sink, algorithm_name) ==
    [is_active |-> TRUE, algorithm_name |-> algorithm_name,
     nodes_explored |-> 0, frontier_size |-> 0]
progress_stop(sink) == [sink EXCEPT !.is_active = FALSE]

\* the window as a record: what the handlers read
GuiFrame ==
    [world |-> world, selected_algorithm |-> selected_algorithm,
     buttons_enabled |-> buttons_enabled, is_searching |-> is_searching,
     pending_search_result |-> pending_search_result,
     search_result |-> search_result,
     search_initial_state |-> search_initial_state,
     search_progress |-> search_progress, solution_path |-> solution_path,
     current_step |-> current_step, auto_running |-> auto_running,
     main |-> main, threads |-> threads]

\* the main thread at a position of run(), outside solve(): the locals of
\* solve() hold nothing
MainAt(at) == [pc |-> at, algorithm_func |-> "", initial_state |-> State(<<0, 0>>, {})]

\* VacuumWorldGUI.__init__ on a grid of size n, after random_dirt has left dirt
NewGui(n, dirt) ==
    [world |-> [VacuumWorld(n) EXCEPT !.dirt_set = dirt],
     selected_algorithm |-> "BFS", buttons_enabled |-> TRUE,
     is_searching |-> FALSE, pending_search_result |-> None,
     search_result |-> None, search_initial_state |-> None,
     search_progress |-> NewSearchProgress, solution_path |-> << >>,
     current_step |-> 0, auto_running |-> FALSE,
     main |-> MainAt("handle_events"),
     threads |-> << >>]

\* the window is in the state g
GuiIs(g) ==
    /\ world = g.world
    /\ selected_algorithm = g.selected_algorithm
    /\ buttons_enabled = g.buttons_enabled
    /\ is_searching = g.is_searching
    /\ pending_search_result = g.pending_search_result
    /\ search_result = g.search_result
    /\ search_initial_state = g.search_initial_state
    /\ search_progress = g.search_progress
    /\ solution_path = g.solution_path
    /\ current_step = g.current_step
    /\ auto_running = g.auto_running
    /\ main = g.main
    /\ threads = g.threads

\* the assignments of one step of the main thread or of a worker
GuiInstall(g) ==
    /\ world' = g.world
    /\ selected_algorithm' = g.selected_algorithm
    /\ buttons_enabled' = g.buttons_enabled
    /\ is_searching' = g.is_searching
    /\ pending_search_result' = g.pending_search_result
    /\ search_result' = g.search_result
    /\ search_initial_state' = g.search_initial_state
    /\ search_progress' = g.search_progress
    /\ solution_path' = g.solution_path
    /\ current_step' = g.current_step
    /\ auto_running' = g.auto_running
    /\ main' = g.main
    /\ threads' = g.threads
    /\ UNCHANGED <<inputs, elapsed, locals>>

\* solve() that starts a search whether or not one is running
solve_check_unguarded(g, algorithm_func) ==
    LET start_state == get_state(g.world)
        func == IF algorithm_func = "" THEN g.selected_algorithm ELSE algorithm_func
    IN IF is_goal(start_state) THEN g
       ELSE [g EXCEPT !.main = [pc |-> "solve", algorithm_func |-> func,
                                initial_state |-> start_state]]

\* solve(algorithm_func), up to the decision to start a search
\* (vacuum_world_gui.py:720-735); "" stands for algorithm_func = None
solve_check(g, algorithm_func) ==
    IF g.is_searching THEN g
    ELSE LET start_state == get_state(g.world)
             func == IF algorithm_func = "" THEN g.selected_algorithm
                     ELSE algorithm_func
         IN IF is_goal(start_state) THEN g
            ELSE [g EXCEPT !.main = [pc |-> "solve", algorithm_func |-> func,
                                     initial_state |-> start_state]]

\* solve(), the rest: disable the buttons, raise is_searching, clear the
\* pending result and start the thread (vacuum_world_gui.py:737-753)
solve_start(g) ==
    [g EXCEPT !.buttons_enabled = FALSE,
              !.is_searching = TRUE,
              !.pending_search_result = None,
              !.search_initial_state = Some(g.main.initial_state),
              !.threads = Append(@, [pc |-> "entry",
                                     algorithm_func |-> g.main.algorithm_func,
                                     initial_state |-> g.main.initial_state,
                                     grid_size |-> g.world.grid_size,
                                     result |-> NoResult,
                                     calls |-> << >>]),
              !.main = MainAt("handle_events")]

\* step_forward (vacuum_world_gui.py:755-769)
step_forward(g) ==
    IF g.solution_path # << >> /\ g.current_step < Len(g.solution_path)
    THEN LET action == g.solution_path[g.current_step + 1]
             step == g.current_step + 1
         IN [g EXCEPT !.world = execute_action(@, action),
                      !.current_step = step,
                      !.auto_running = IF step >= Len(g.solution_path)
                                       THEN FALSE ELSE @]
    ELSE g

\* handle_keyboard (vacuum_world_gui.py:617-655)
handle_keyboard(g, key) ==
    CASE key \in {"UP", "DOWN", "LEFT", "RIGHT", "s"} ->
            LET action == CASE key = "UP" -> "Up" [] key = "DOWN" -> "Down"
                            [] key = "LEFT" -> "Left" [] key = "RIGHT" -> "Right"
                            [] OTHER -> "Suck"
            IN [g EXCEPT !.solution_path = << >>,
                         !.search_result = None,
                         !.world = execute_action(@, action)]
      [] key = "c" -> [g EXCEPT !.world = [@ EXCEPT !.dirt_set = {}]]
      [] key = "SPACE" -> solve_check(g, "")
      [] key = "RETURN" -> step_forward(g)
      [] key = "a" -> [g EXCEPT !.auto_running = ~@]
      [] OTHER -> g

\* handle_button_click for the Find Path button and the algorithm buttons
\* (vacuum_world_gui.py:583-594)
handle_button_click(g, name) ==
    IF name = "solve" THEN solve_check(g, "")
    ELSE [g EXCEPT !.selected_algorithm = name]

\* handle_grid_click on a cell of the grid while placing_robot is False
\* (vacuum_world_gui.py:524-543)
handle_grid_click(g, cell) == [g EXCEPT !.world = toggle_dirt(@, cell)]

\* update (vacuum_world_gui.py:776-822); due: the animation timer has run out
update(g, due) ==
    LET g1 == IF g.pending_search_result # None
              THEN LET r == g.pending_search_result[1]
                   IN [g EXCEPT !.search_result = Some(r),
                                !.pending_search_result = None,
                                !.buttons_enabled = TRUE,
                                !.solution_path = IF r.success THEN r.path ELSE << >>,
                                !.current_step = IF r.success THEN 0 ELSE @]
              ELSE g
        g2 == IF g1.auto_running /\ g1.solution_path # << >> /\ due
              THEN step_forward(g1)
              ELSE g1
    IN [g2 EXCEPT !.main = MainAt("handle_events")]

\* the progress.update calls of a step from frame v to frame w: the counters
\* passed, when the step has made a call
CallsOf(v, w) == IF w.progress # v.progress THEN << w.progress >> ELSE << >>

\* bfs from a loop head on: the result returned and the calls made on the way
RECURSIVE bfs_trace(_, _)
bfs_trace(v, calls) ==
    IF v.pc = "loop"
    THEN bfs_trace(bfs_loop(v), calls \o CallsOf(v, bfs_loop(v)))
    ELSE [result |-> v.result, calls |-> calls]

\* greedy_nearest_neighbor from frame v on: the results it can return, each
\* with the calls made on the way
RECURSIVE nn_traces(_, _)
nn_traces(v, calls) ==
    IF v.pc = "done" THEN {[result |-> v.result, calls |-> calls]}
    ELSE UNION {nn_traces(w, calls \o CallsOf(v, w)) : w \in nn_step(v)}

\* the runs of algorithm_func(initial_state, grid_size, progress): the result
\* returned and the progress.update calls made before it; none when the
\* callable raises
RunAlgorithm(algorithm_func, state, n) ==
    CASE algorithm_func = "BFS" ->
            {bfs_trace(bfs_start(NewFrame("BFS", state, n, DEFAULT_MAX_DEPTH)), << >>)}
      [] algorithm_func = "Nearest Neighbor" ->
            nn_traces(NewFrame("Nearest Neighbor", state, n, DEFAULT_MAX_DEPTH), << >>)
      [] OTHER -> {}

\* the result the except clause stores (vacuum_world_gui.py:712-715)
ErrorResult == SearchResult(<< >>, 0, 0, 0, FALSE, "Error", None, None)

\* a sequence without its i-th element
Remove(items, i) == SubSeq(items, 1, i - 1) \o SubSeq(items, i + 1, Len(items))

\* a worker that goes on to its finally clause without calling stop()
thread_stop_skipped(g, i) == {[g EXCEPT !.threads[i].pc = "finally"]}

\* self.search_progress.stop() of the i-th worker, on the normal path and in
\* the except clause (vacuum_world_gui.py:709 and 716)
thread_stop(g, i) ==
    {[g EXCEPT !.search_progress = progress_stop(@), !.threads[i].pc = "finally"]}

\* one step of the i-th worker, _run_search_in_thread
\* (vacuum_world_gui.py:697-718): the windows it can leave behind
thread_step(g, i) ==
    LET t == g.threads[i]
    IN CASE t.pc = "entry" ->
              {[g EXCEPT !.search_progress = progress_start(@, g.selected_algorithm),
                         !.threads[i].pc = "strategy"]}
         [] t.pc = "strategy" ->
              LET runs == RunAlgorithm(t.algorithm_func, t.initial_state, t.grid_size)
              IN IF runs = {}
                 THEN {[g EXCEPT !.threads[i].pc = "except"]}
                 ELSE {[g EXCEPT !.threads[i].pc = "running",
                                 !.threads[i].result = run.result,
                                 !.threads[i].calls = run.calls] : run \in runs}
         [] t.pc = "running" ->
              IF t.calls # << >>
              THEN {[g EXCEPT !.search_progress =
                                  progress_update(@, Head(t.calls).nodes_explored,
                                                  Head(t.calls).frontier_size),
                              !.threads[i].calls = Tail(t.calls)]}
              ELSE {[g EXCEPT !.threads[i].pc = "store"]}
         [] t.pc = "store" ->
              {[g EXCEPT !.pending_search_result = Some(t.result),
                         !.threads[i].pc = "stop"]}
         [] t.pc = "except" ->
              {[g EXCEPT !.pending_search_result = Some(ErrorResult),
                         !.threads[i].pc = "stop"]}
         [] t.pc = "stop" -> thread_stop(g, i)
         [] t.pc = "finally" ->
              {[g EXCEPT !.is_searching = FALSE, !.threads = Remove(@, i)]}
         [] OTHER -> {}

Init ==
    \E a \in DEFAULT_ALGORITHMS, n \in 1 .. MaxGrid :
      \E pos \in Cells(n), dirt \in DirtSets(n) :
        \E d \in (IF a = "DFS" THEN {0, SmallDepth, DEFAULT_MAX_DEPTH} ELSE {DEFAULT_MAX_DEPTH}) :
          LET v == NewFrame(a, State(pos, dirt), n, d)
          IN /\ algo = v.algo
             /\ grid_size = v.grid_size
             /\ initial_state = v.initial_state
             /\ max_depth = v.max_depth
             /\ elapsed = v.elapsed
             /\ pc = v.pc
             /\ frontier = v.frontier
             /\ frontier_set = v.frontier_set
             /\ explored = v.explored
             /\ counter = v.counter
             /\ nodes_expanded = v.nodes_expanded
             /\ max_frontier_size = v.max_frontier_size
             /\ search_tree = v.search_tree
             /\ progress = v.progress
             /\ result = v.result
             /\ current_state = v.current_state
             /\ remaining_dirt = v.remaining_dirt
             /\ path = v.path
             /\ nearest_dirt = v.nearest_dirt
             /\ explored_nodes = v.explored_nodes
             /\ GuiIs(NewGui(1, {}))

\* time passes while the strategy runs
Tick ==
    /\ pc \in {"start", "loop"}
    /\ algo # "Nearest Neighbor"
    /\ elapsed <= MAX_TIME_SECONDS
    /\ elapsed' = elapsed + TickSeconds
    /\ UNCHANGED <<inputs, locals, gui>>

\* the frames the next step of the strategy called can leave behind
NextFrames ==
    CASE algo = "BFS" /\ pc = "start" -> {bfs_start(Frame)}
      [] algo = "BFS" /\ pc = "loop" -> {bfs_loop(Frame)}
      [] algo = "DFS" /\ pc = "start" -> {dfs_start(Frame)}
      [] algo = "DFS" /\ pc = "loop" -> {dfs_loop(Frame)}
      [] algo = "UCS" /\ pc = "start" -> {ucs_start(Frame)}
      [] algo = "UCS" /\ pc = "loop" -> {ucs_loop(Frame)}
      [] algo = "Greedy" /\ pc = "start" -> {greedy_start(Frame)}
      [] algo = "Greedy" /\ pc = "loop" -> {greedy_loop(Frame)}
      [] algo = "A*" /\ pc = "start" -> {astar_start(Frame)}
      [] algo = "A*" /\ pc = "loop" -> {astar_loop(Frame)}
      [] algo = "Nearest Neighbor" /\ pc = "start" -> {nn_start(Frame)}
      [] algo = "Nearest Neighbor" /\ pc = "outer" /\ remaining_dirt = {} ->
            {nn_outer(Frame, nearest_dirt)}
      [] algo = "Nearest Neighbor" /\ pc = "outer" /\ remaining_dirt # {} ->
            {nn_outer(Frame, dirt_pos) :
                dirt_pos \in NearestCandidates(current_state.robot_pos, remaining_dirt)}
      [] algo = "Nearest Neighbor" /\ pc = "walk" -> {nn_walk(Frame)}
      [] OTHER -> {}

\* one action per strategy and position: the step installs a next frame
Bfs_Start == algo = "BFS" /\ pc = "start" /\ \E v \in NextFrames : Install(v)
Bfs_Loop == algo = "BFS" /\ pc = "loop" /\ \E v \in NextFrames : Install(v)
Dfs_Start == algo = "DFS" /\ pc = "start" /\ \E v \in NextFrames : Install(v)
Dfs_Loop == algo = "DFS" /\ pc = "loop" /\ \E v \in NextFrames : Install(v)
Ucs_Start == algo = "UCS" /\ pc = "start" /\ \E v \in NextFrames : Install(v)
Ucs_Loop == algo = "UCS" /\ pc = "loop" /\ \E v \in NextFrames : Install(v)
Greedy_Start == algo = "Greedy" /\ pc = "start" /\ \E v \in NextFrames : Install(v)
Greedy_Loop == algo = "Greedy" /\ pc = "loop" /\ \E v \in NextFrames : Install(v)
Astar_Start == algo = "A*" /\ pc = "start" /\ \E v \in NextFrames : Install(v)
Astar_Loop == algo = "A*" /\ pc = "loop" /\ \E v \in NextFrames : Install(v)
Nn_Start == algo = "Nearest Neighbor" /\ pc = "start" /\ \E v \in NextFrames : Install(v)
Nn_Outer == algo = "Nearest Neighbor" /\ pc = "outer" /\ \E v \in NextFrames : Install(v)
Nn_Walk == algo = "Nearest Neighbor" /\ pc = "walk" /\ \E v \in NextFrames : Install(v)

\* one step of the strategy called
Step ==
    \/ Bfs_Start
    \/ Bfs_Loop
    \/ Dfs_Start
    \/ Dfs_Loop
    \/ Ucs_Start
    \/ Ucs_Loop
    \/ Greedy_Start
    \/ Greedy_Loop
    \/ Astar_Start
    \/ Astar_Loop
    \/ Nn_Start
    \/ Nn_Outer
    \/ Nn_Walk

Next == Tick \/ Step

Spec == Init /\ [][Next]_vars

\* a step of the strategy that changes its locals is possible: ENABLED <<Step>>_vars
StepEnabled == \E v \in NextFrames : v # Frame

\* The thread of the call keeps running: weak fairness of Step, WF_vars(Step),
\* written with ENABLED <<Step>>_vars as the state predicate StepEnabled and
\* <<Step>>_vars as the steps that change the locals (Tick changes none).
LiveSpec == Spec /\ ([]<>(~StepEnabled) \/ []<><<locals' # locals>>_vars)

\* depth-first search alone, on larger boards and under the node cap as
\* shipped: dfs(initial_state, grid_size, None, max_depth) for every board of
\* up to DfsDirt dirty cells and every max_depth up to DfsDepth
DfsInit ==
    /\ \E n \in 1 .. DfsGrid :
         \E pos \in Cells(n), dirt \in {d \in DirtSets(n) : Cardinality(d) <= DfsDirt} :
           \E d \in 0 .. DfsDepth :
             LET v == NewFrame("DFS", State(pos, dirt), n, d)
             IN /\ algo = v.algo
                /\ grid_size = v.grid_size
                /\ initial_state = v.initial_state
                /\ max_depth = v.max_depth
                /\ elapsed = v.elapsed
                /\ pc = v.pc
                /\ frontier = v.frontier
                /\ frontier_set = v.frontier_set
                /\ explored = v.explored
                /\ counter = v.counter
                /\ nodes_expanded = v.nodes_expanded
                /\ max_frontier_size = v.max_frontier_size
                /\ search_tree = v.search_tree
                /\ progress = v.progress
                /\ result = v.result
                /\ current_state = v.current_state
                /\ remaining_dirt = v.remaining_dirt
                /\ path = v.path
                /\ nearest_dirt = v.nearest_dirt
                /\ explored_nodes = v.explored_nodes
    /\ GuiIs(NewGui(1, {}))

\* the frame of the call under the node cap as shipped
ShippedFrame == [Frame EXCEPT !.max_nodes = SHIPPED_MAX_NODES]

Dfs_ShippedStart == algo = "DFS" /\ pc = "start" /\ Install(dfs_start(ShippedFrame))
Dfs_ShippedLoop == algo = "DFS" /\ pc = "loop" /\ Install(dfs_loop(ShippedFrame))

DfsNext == Dfs_ShippedStart \/ Dfs_ShippedLoop

DfsSpec == DfsInit /\ [][DfsNext]_vars

\* the window and its workers: no strategy call of the first specification
\* is in progress, the workers run their strategies as functions
GuiInit ==
    /\ \E n \in 1 .. MaxGrid :
          \E dirt \in {d \in DirtSets(n) : Cardinality(d) <= GuiDirt} :
              GuiIs(NewGui(n, dirt))
    /\ LET v == NewFrame("BFS", State(<<0, 0>>, {}), 1, DEFAULT_MAX_DEPTH)
       IN /\ algo = v.algo
          /\ grid_size = v.grid_size
          /\ initial_state = v.initial_state
          /\ max_depth = v.max_depth
          /\ elapsed = v.elapsed
          /\ pc = v.pc
          /\ frontier = v.frontier
          /\ frontier_set = v.frontier_set
          /\ explored = v.explored
          /\ counter = v.counter
          /\ nodes_expanded = v.nodes_expanded
          /\ max_frontier_size = v.max_frontier_size
          /\ search_tree = v.search_tree
          /\ progress = v.progress
          /\ result = v.result
          /\ current_state = v.current_state
          /\ remaining_dirt = v.remaining_dirt
          /\ path = v.path
          /\ nearest_dirt = v.nearest_dirt
          /\ explored_nodes = v.explored_nodes

\* handle_events: one event of the queue is handled
Gui_Key ==
    /\ main.pc = "handle_events"
    /\ \E key \in Keys : GuiInstall(handle_keyboard(GuiFrame, key))

\* a click on an enabled button (Button.handle_event, components.py:50-52)
Gui_Button ==
    /\ main.pc = "handle_events"
    /\ buttons_enabled
    /\ \E name \in {"solve"} \cup GuiAlgorithms :
          GuiInstall(handle_button_click(GuiFrame, name))

\* run_with_algorithm(algorithm_func) (vacuum_world_gui.py:869-871)
Gui_RunWithAlgorithm ==
    /\ main.pc = "handle_events"
    /\ \E algorithm_func \in GuiAlgorithms \cup {"custom"} :
          GuiInstall(solve_check(GuiFrame, algorithm_func))

Gui_SolveStart ==
    /\ main.pc = "solve"
    /\ GuiInstall(solve_start(GuiFrame))

\* handle_events returns, run() goes on to update()
Gui_EventsDone ==
    /\ main.pc = "handle_events"
    /\ GuiInstall([GuiFrame EXCEPT !.main = MainAt("update")])

\* update(), then draw() and the next turn of the loop of run()
Gui_Update ==
    /\ main.pc = "update"
    /\ \E due \in BOOLEAN : GuiInstall(update(GuiFrame, due))

\* a worker thread takes its next step
ThreadAt(i, at) == i \in 1 .. Len(threads) /\ threads[i].pc = at
Thread_Start ==
    \E i \in 1 .. Len(threads) :
        ThreadAt(i, "entry") /\ \E g \in thread_step(GuiFrame, i) : GuiInstall(g)
Thread_Run ==
    \E i \in 1 .. Len(threads) :
        ThreadAt(i, "strategy") /\ \E g \in thread_step(GuiFrame, i) : GuiInstall(g)
Thread_Update ==
    \E i \in 1 .. Len(threads) :
        /\ ThreadAt(i, "running") /\ threads[i].calls # << >>
        /\ \E g \in thread_step(GuiFrame, i) : GuiInstall(g)
Thread_Return ==
    \E i \in 1 .. Len(threads) :
        /\ ThreadAt(i, "running") /\ threads[i].calls = << >>
        /\ \E g \in thread_step(GuiFrame, i) : GuiInstall(g)
Thread_Store ==
    \E i \in 1 .. Len(threads) :
        ThreadAt(i, "store") /\ \E g \in thread_step(GuiFrame, i) : GuiInstall(g)
Thread_Except ==
    \E i \in 1 .. Len(threads) :
        ThreadAt(i, "except") /\ \E g \in thread_step(GuiFrame, i) : GuiInstall(g)
Thread_Stop ==
    \E i \in 1 .. Len(threads) :
        ThreadAt(i, "stop") /\ \E g \in thread_step(GuiFrame, i) : GuiInstall(g)
Thread_Finally ==
    \E i \in 1 .. Len(threads) :
        ThreadAt(i, "finally") /\ \E g \in thread_step(GuiFrame, i) : GuiInstall(g)

GuiNext ==
    \/ Gui_Key
    \/ Gui_Button
    \/ Gui_RunWithAlgorithm
    \/ Gui_SolveStart
    \/ Gui_EventsDone
    \/ Gui_Update
    \/ Thread_Start
    \/ Thread_Run
    \/ Thread_Update
    \/ Thread_Return
    \/ Thread_Store
    \/ Thread_Except
    \/ Thread_Stop
    \/ Thread_Finally

GuiSpec == GuiInit /\ [][GuiNext]_vars

\* the keys that act on the world
WorldKeys == {"RIGHT", "s"}

\* a key that acts on the world is pressed: KEYDOWN is handled whether or not
\* a search is running (vacuum_world_gui.py:684-685)
Gui_WorldKey ==
    /\ main.pc = "handle_events"
    /\ world.total_cost < MaxCost
    /\ \E key \in WorldKeys : GuiInstall(handle_keyboard(GuiFrame, key))

\* a click on a cell of the grid (vacuum_world_gui.py:676-682)
Gui_GridClick ==
    /\ main.pc = "handle_events"
    /\ \E cell \in (0 .. world.grid_size - 1) \X (0 .. world.grid_size - 1) :
          GuiInstall(handle_grid_click(GuiFrame, cell))

\* the window with the Space key, the keys that act on the world and the
\* clicks on the grid
GuiWorldNext ==
    \/ Gui_Key
    \/ Gui_WorldKey
    \/ Gui_GridClick
    \/ Gui_SolveStart
    \/ Gui_EventsDone
    \/ Gui_Update
    \/ Thread_Start
    \/ Thread_Run
    \/ Thread_Update
    \/ Thread_Return
    \/ Thread_Store
    \/ Thread_Stop
    \/ Thread_Finally

GuiWorldSpec == GuiInit /\ [][GuiWorldNext]_vars

\* the grids of WorldSpec: from the 1x1 grid, which only the constructor
\* gives, to one above the smallest grid set_grid_size gives
LargestWorld == MIN_GRID_SIZE + 1

\* a VacuumWorld on its own, its methods called one after the other
WorldInit ==
    /\ \E n \in 1 .. LargestWorld : GuiIs([NewGui(1, {}) EXCEPT !.world = VacuumWorld(n)])
    /\ LET v == NewFrame("BFS", State(<<0, 0>>, {}), 1, DEFAULT_MAX_DEPTH)
       IN /\ algo = v.algo
          /\ grid_size = v.grid_size
          /\ initial_state = v.initial_state
          /\ max_depth = v.max_depth
          /\ elapsed = v.elapsed
          /\ pc = v.pc
          /\ frontier = v.frontier
          /\ frontier_set = v.frontier_set
          /\ explored = v.explored
          /\ counter = v.counter
          /\ nodes_expanded = v.nodes_expanded
          /\ max_frontier_size = v.max_frontier_size
          /\ search_tree = v.search_tree
          /\ progress = v.progress
          /\ result = v.result
          /\ current_state = v.current_state
          /\ remaining_dirt = v.remaining_dirt
          /\ path = v.path
          /\ nearest_dirt = v.nearest_dirt
          /\ explored_nodes = v.explored_nodes

\* the cells passed as arguments: those of the largest grid and a ring of
\* cells outside it
ArgCells == (-1 .. LargestWorld) \X (-1 .. LargestWorld)

\* the outcomes of the draws of random_dirt, by grid size
WorldDirtSets ==
    [n \in 1 .. LargestWorld |->
        {d \in SUBSET ((0 .. n - 1) \X (0 .. n - 1)) : Cardinality(d) <= WorldDirt}]

\* the world w holds no more dirt than the worlds followed here
Followed(w) == Cardinality(w.dirt_set) <= WorldDirt

\* the method leaves the world w
SetWorld(w) == GuiInstall([GuiFrame EXCEPT !.world = w])

World_Reset ==
    /\ Followed(reset(world))
    /\ SetWorld(reset(world))
World_SetRobotPosition ==
    \E cell \in ArgCells :
        /\ Followed(set_robot_position(world, cell))
        /\ SetWorld(set_robot_position(world, cell))
World_AddDirt ==
    \E cell \in ArgCells :
        /\ Followed(add_dirt(world, cell))
        /\ SetWorld(add_dirt(world, cell))
World_RemoveDirt ==
    \E cell \in ArgCells :
        /\ Followed(remove_dirt(world, cell))
        /\ SetWorld(remove_dirt(world, cell))
World_ToggleDirt ==
    \E cell \in ArgCells :
        /\ Followed(toggle_dirt(world, cell))
        /\ SetWorld(toggle_dirt(world, cell))
World_RandomDirt ==
    \E draws \in WorldDirtSets[world.grid_size] :
        /\ Followed(random_dirt(world, draws))
        /\ SetWorld(random_dirt(world, draws))
World_ExecuteAction ==
    /\ world.total_cost < MaxCost
    /\ \E action \in Action : SetWorld(execute_action(world, action))
World_SetGridSize ==
    \E size \in 0 .. LargestWorld :
        /\ Followed(set_grid_size(world, size))
        /\ SetWorld(set_grid_size(world, size))

WorldNext ==
    \/ World_Reset
    \/ World_SetRobotPosition
    \/ World_AddDirt
    \/ World_RemoveDirt
    \/ World_ToggleDirt
    \/ World_RandomDirt
    \/ World_ExecuteAction
    \/ World_SetGridSize

WorldSpec == WorldInit /\ [][WorldNext]_vars

\* a step of a worker thread
ThreadStep ==
    \E i \in 1 .. Len(threads) : \E g \in thread_step(GuiFrame, i) : GuiInstall(g)

\* A started thread keeps running: weak fairness of ThreadStep, written with
\* ENABLED <<ThreadStep>>_vars as the state predicate  threads # << >>  (every
\* step of a worker changes its position or its pending calls).
GuiLiveSpec == GuiSpec /\ ([]<>(threads = << >>) \/ []<><<ThreadStep>>_vars)

(***************************************************************************)
(* Properties                                                              *)
(***************************************************************************)
FiveSearches == {"BFS", "DFS", "UCS", "Greedy", "A*"}

Returned == pc = "done"

\* the pairs of a successor list
Pairs(successors) == {successors[i] : i \in 1 .. Len(successors)}

\* the states of an action sequence replayed from start, and whether every
\* action of it is the action of a successor pair of the state before it
ReplayMatches(spath, start, n) ==
    LET states == get_state_path(spath, start, n)
    IN \A i \in 1 .. Len(spath) :
         <<spath[i], states[i + 1]>> \in Pairs(get_successors(states[i], n))

ReplayEnd(spath, start, n) ==
    LET states == get_state_path(spath, start, n)
    IN states[Len(states)]

\* C1: for each of the six strategies, a result with success = true carries a
\* path whose replay from the initial state finds a get_successors pair with
\* the same action at every step and ends in a state with no dirt.
C1_SuccessPathCleans ==
    (Returned /\ result.success) =>
        /\ ReplayMatches(result.path, initial_state, grid_size)
        /\ ReplayEnd(result.path, initial_state, grid_size).dirt_set = {}

C1_Witness ==
    /\ Returned
    /\ result.success
    /\ Len(result.path) >= 4
    /\ Cardinality(initial_state.dirt_set) >= 2

\* the states one legal action away from a set of states
Image(states, n) ==
    UNION {{pair[2] : pair \in Pairs(get_successors(s, n))} : s \in states}

\* the least number of legal actions from a state of  layer  (all at distance k
\* from the start) to a state with no dirt; -1 when there is none
RECURSIVE LeastActions(_, _, _, _)
LeastActions(layer, seen, k, n) ==
    IF \E s \in layer : s.dirt_set = {} THEN k
    ELSE IF layer = {} THEN -1
    ELSE LET next == Image(layer, n) \ seen
         IN LeastActions(next, seen \cup next, k + 1, n)

MinActions(state, n) == LeastActions({state}, {state}, 0, n)

\* C2: whenever BFS returns success = true, the length of its path is the
\* minimum number of actions of any legal action sequence from the initial
\* state to a state with no dirt.
C2_BfsShortest ==
    (Returned /\ algo = "BFS" /\ result.success) =>
        Len(result.path) = MinActions(initial_state, grid_size)

C2_Witness ==
    /\ Returned
    /\ algo = "BFS"
    /\ result.success
    /\ Len(result.path) >= 4
    /\ grid_size = 2

\* C3: whenever BFS and UCS both return success = true on the same input,
\* their paths have the same length.
C3_BfsUcsSameLength ==
    (Returned /\ algo = "UCS" /\ result.success
              /\ bfs(initial_state, grid_size).success) =>
        Len(result.path) = Len(bfs(initial_state, grid_size).path)

C3_Witness ==
    /\ Returned
    /\ algo = "UCS"
    /\ result.success
    /\ bfs(initial_state, grid_size).success
    /\ Len(result.path) >= 3

\* the states of the frontier
FrontierStates ==
    CASE algo \in {"BFS", "DFS"} -> {frontier[i][1] : i \in 1 .. Len(frontier)}
      [] algo \in {"UCS", "Greedy"} -> {frontier[i][3] : i \in 1 .. Len(frontier)}
      [] algo = "A*" -> {frontier[i][4] : i \in 1 .. Len(frontier)}
      [] OTHER -> {}

\* the states the call has handed or will hand to get_successors
SuccessorInputs == {initial_state, current_state} \cup FrontierStates

\* C4: for every state whose agent is inside the grid, get_successors returns
\* only next-states whose agent is inside the grid, and it returns a Suck
\* pair if and only if the agent's cell is dirty.
C4_SuccessorsInGrid ==
    \A s \in SuccessorInputs :
        s.robot_pos \in Cells(grid_size) =>
            LET pairs == Pairs(get_successors(s, grid_size))
            IN /\ \A pair \in pairs : pair[2].robot_pos \in Cells(grid_size)
               /\ (\E pair \in pairs : pair[1] = "Suck") <=> (s.robot_pos \in s.dirt_set)

C4_Witness ==
    /\ pc = "loop"
    /\ nodes_expanded >= 2
    /\ \E s \in FrontierStates :
          /\ s.robot_pos = <<grid_size - 1, grid_size - 1>>
          /\ s.robot_pos \in s.dirt_set
    /\ \E s \in FrontierStates : s.robot_pos \notin s.dirt_set

\* the keys of explored: the states expanded so far
ExploredStates == IF algo \in {"UCS", "A*"} THEN DOMAIN explored ELSE explored

TimeoutName == algo \o " (timeout)"
NodeLimitName == algo \o " (node limit)"

\* the terminal outcomes a returned result falls under
Outcomes ==
    {o \in {"Succeeded", "ExhaustedFrontier", "TimedOut", "NodeLimitExceeded"} :
        \/ o = "Succeeded" /\ result.success
        \/ o = "ExhaustedFrontier" /\ ~result.success /\ result.algorithm_name = algo
        \/ o = "TimedOut" /\ ~result.success /\ result.algorithm_name = TimeoutName
        \/ o = "NodeLimitExceeded" /\ ~result.success
                                   /\ result.algorithm_name = NodeLimitName}

\* C5: every run of BFS, DFS, UCS, Greedy or A-star eventually returns, in
\* exactly one of the outcomes Succeeded, ExhaustedFrontier, TimedOut and
\* NodeLimitExceeded; it never loops forever.
C5_SearchReturns ==
    <>(algo \in FiveSearches => (Returned /\ Cardinality(Outcomes) = 1))

C5_Witness ==
    /\ Returned
    /\ algo = "DFS"
    /\ Outcomes = {"ExhaustedFrontier"}
    /\ nodes_expanded >= 3

\* the governor's ceilings as the loop head finds them
TimeBreach == pc = "loop" /\ frontier # << >> /\ elapsed > MAX_TIME_SECONDS
NodeBreach == pc = "loop" /\ frontier # << >> /\ ~(elapsed > MAX_TIME_SECONDS)
                          /\ nodes_expanded > MAX_NODES

\* C6: the result's algorithm_name is the registry name followed by
\* " (timeout)" or " (node limit)" exactly when the run was ended by that
\* ceiling; a run ended by success or by frontier exhaustion carries the
\* registry name, and every governor-ended result has success = false.
C6_NameTagsTheCeiling ==
    [][(algo \in FiveSearches /\ pc # "done" /\ pc' = "done") =>
          /\ (result'.algorithm_name = TimeoutName) <=> TimeBreach
          /\ (result'.algorithm_name = NodeLimitName) <=> NodeBreach
          /\ (~TimeBreach /\ ~NodeBreach) => result'.algorithm_name = algo
          /\ (TimeBreach \/ NodeBreach) => ~result'.success]_vars

C6_Witness ==
    /\ Returned
    /\ algo = "Greedy"
    /\ result.algorithm_name = "Greedy (node limit)"
    /\ elapsed = 0

\* C7: in every state reached by BFS, DFS, UCS, Greedy or A-star, and in
\* every result they return, nodes_expanded is at most MAX_NODES.
C7_NodeCapIsCeiling ==
    algo \in FiveSearches =>
        /\ nodes_expanded <= MAX_NODES
        /\ result.nodes_expanded <= MAX_NODES

\* an optional collection, absent read as empty
OptSet(x) == IF x = None THEN {} ELSE x[1]
OptSeq(x) == IF x = None THEN << >> ELSE x[1]

\* C8: a result produced on a governor-triggered path carries the diagnostics
\* accumulated so far: the position of every state expanded before the abort
\* and every edge captured before the abort.
C8_AbortKeepsDiagnostics ==
    (Returned /\ algo \in FiveSearches
              /\ result.algorithm_name \in {TimeoutName, NodeLimitName}) =>
        /\ Positions(ExploredStates) \subseteq OptSet(result.explored_nodes)
        /\ \A i \in 1 .. Len(search_tree) :
              /\ i <= Len(OptSeq(result.search_tree))
              /\ OptSeq(result.search_tree)[i] = search_tree[i]

\* C9: for each of the six strategies, an initial state with no dirt gives
\* success = true, an empty path and nodes_expanded = 0 (the deadline not
\* having passed).
C9_CleanBoardShortCircuits ==
    (Returned /\ initial_state.dirt_set = {} /\ elapsed <= MAX_TIME_SECONDS) =>
        /\ result.success
        /\ result.path = << >>
        /\ result.nodes_expanded = 0

NN == "Nearest Neighbor"

\* C10: Nearest Neighbor terminates and returns success = true for every dirt
\* configuration inside the grid, the empty one included; each iteration of
\* its outer loop removes exactly one cell (the target) from remaining_dirt
\* and each move of a walk loop brings the agent one step nearer the target.
C10_NearestNeighborReturns ==
    /\ <>(algo = NN => (Returned /\ result.success))
    /\ [][(algo = NN /\ pc = "walk" /\ pc' = "outer") =>
            /\ nearest_dirt \in remaining_dirt
            /\ remaining_dirt' = remaining_dirt \ {nearest_dirt}]_vars
    /\ [][(algo = NN /\ pc = "walk" /\ pc' = "walk") =>
            Manhattan(current_state'.robot_pos, nearest_dirt)
               = Manhattan(current_state.robot_pos, nearest_dirt) - 1]_vars

C10_Witness ==
    /\ Returned
    /\ algo = NN
    /\ result.success
    /\ Cardinality(initial_state.dirt_set) = 3
    /\ Len(result.path) >= 6

\* C11: for every input and every max_depth >= 0, a DFS result with
\* success = true has a path of at most max_depth actions.
C11_DfsPathWithinDepthCap ==
    (Returned /\ algo = "DFS" /\ result.success) =>
        Len(result.path) <= max_depth

\* DFS under the small cap returns a path exactly as long as the cap allows
C11_Witness ==
    /\ Returned
    /\ algo = "DFS"
    /\ result.success
    /\ max_depth = SmallDepth
    /\ Len(result.path) = max_depth
    /\ nodes_expanded >= 4

\* the run was ended by one of the governor's ceilings
CutByGovernor == result.algorithm_name \in {TimeoutName, NodeLimitName}

Prefix(entry) == <<entry[1], entry[2]>>

\* C14: no strategy raises on an input inside the grid: BFS's
\* frontier_set.remove(state) only meets states that are in frontier_set,
\* the entries of the priority queues of UCS, Greedy and A-star have pairwise
\* distinct (priority, counter) prefixes, so that no two State objects are
\* ever compared, and Nearest Neighbor's selection loop always finds a target.
C14_NoStrategyRaises ==
    /\ pc # "raised"
    /\ (algo = "BFS" /\ pc = "loop") =>
          \A i \in 1 .. Len(frontier) : frontier[i][1] \in frontier_set
    /\ (algo \in {"UCS", "Greedy", "A*"}) =>
          \A i, j \in 1 .. Len(frontier) :
             i # j => Prefix(frontier[i]) # Prefix(frontier[j])
    /\ (algo = NN /\ pc = "outer" /\ remaining_dirt # {}) =>
          NearestCandidates(current_state.robot_pos, remaining_dirt) # {}

\* a priority queue holds two entries of equal priority, told apart by the counter
C14_Witness ==
    /\ algo \in {"UCS", "Greedy", "A*"}
    /\ pc = "loop"
    /\ nodes_expanded >= 2
    /\ \E i, j \in 1 .. Len(frontier) :
          i # j /\ frontier[i][1] = frontier[j][1] /\ frontier[i][2] # frontier[j][2]

\* C15: Nearest Neighbor is deterministic: every run on the same initial
\* state and grid size returns the same path, also when several remaining
\* dirty cells are at the same minimal distance from the agent.
C15_NearestNeighborDeterministic ==
    (Returned /\ algo = NN) =>
        \A r \in greedy_nearest_neighbor(initial_state, grid_size) :
            r.path = result.path

\* C16: with the agent at a cell p of the grid and dirty set {p}, each of the
\* six strategies (DFS with a depth cap of at least 1, the deadline not passed)
\* returns success = true with path exactly [Suck] and nodes_expanded >= 1.
C16_SuckOnTheSpot ==
    (Returned /\ initial_state.dirt_set = {initial_state.robot_pos}
              /\ max_depth >= 1 /\ elapsed <= MAX_TIME_SECONDS) =>
        /\ result.success
        /\ result.path = <<"Suck">>
        /\ result.nodes_expanded >= 1

C16_Witness ==
    /\ Returned
    /\ algo = "UCS"
    /\ grid_size = MaxGrid
    /\ initial_state.dirt_set = {initial_state.robot_pos}
    /\ elapsed <= MAX_TIME_SECONDS
    /\ result.path = <<"Suck">>
    /\ result.nodes_expanded >= 4

\* C17: with a single dirty cell d, BFS (not ended by the governor) returns a
\* path of Manhattan(agent, d) + 1 actions whose last action is Suck; on the
\* 2 x 2 grid with the agent at (0,0) and dirt {(1,1)} the path has 3 actions
\* and nodes_expanded = 4.
C17_BfsSingleDirt ==
    (Returned /\ algo = "BFS" /\ Cardinality(initial_state.dirt_set) = 1
              /\ ~CutByGovernor) =>
        /\ result.success
        /\ \A d \in initial_state.dirt_set :
              Len(result.path) = Manhattan(initial_state.robot_pos, d) + 1
        /\ result.path[Len(result.path)] = "Suck"
        /\ (grid_size = 2 /\ initial_state = State(<<0, 0>>, {<<1, 1>>})) =>
              (Len(result.path) = 3 /\ result.nodes_expanded = 4)

C17_Witness ==
    /\ Returned
    /\ algo = "BFS"
    /\ grid_size = 2
    /\ initial_state = State(<<0, 0>>, {<<1, 1>>})
    /\ result.success
    /\ Len(result.path) = 3
    /\ result.nodes_expanded = 4

\* C18 as stated: there are a grid size and a state with more than one dirty
\* cell whose heuristic value is greater than the length of the shortest
\* legal action sequence from it to a goal state.
C18_HeuristicOvercounts ==
    \E n \in 1 .. MaxGrid : \E pos \in Cells(n), dirt \in DirtSets(n) :
        /\ Cardinality(dirt) > 1
        /\ heuristic(State(pos, dirt), n) > MinActions(State(pos, dirt), n)

\* the search has queued its initial state with the heuristic value as priority
HeuristicApplied == algo \in {"Greedy", "A*"} /\ pc = "loop" /\ nodes_expanded = 0

\* C18 amended: the heuristic is admissible: the value the searches compute
\* for a state is never greater than the length of the shortest legal action
\* sequence from it to a goal state, and it is smaller while dirt remains.
C18_HeuristicAdmissible ==
    HeuristicApplied =>
        /\ frontier[1][1] <= MinActions(initial_state, grid_size)
        /\ initial_state.dirt_set # {} =>
              frontier[1][1] < MinActions(initial_state, grid_size)

C18_Witness ==
    /\ HeuristicApplied
    /\ Cardinality(initial_state.dirt_set) >= 2
    /\ frontier[1][1] >= 2
    /\ frontier[1][1] < MinActions(initial_state, grid_size)

\* the (state, heuristic value) pairs in the priority queue of Greedy (priority
\* h) and of A-star (priority f = g + h)
QueuedHeuristics ==
    CASE algo = "Greedy" -> {<<frontier[i][3], frontier[i][1]>> : i \in 1 .. Len(frontier)}
      [] algo = "A*" ->
           {<<frontier[i][4], frontier[i][1] - frontier[i][3]>> : i \in 1 .. Len(frontier)}
      [] OTHER -> {}

\* C19: heuristic(state) is 0 when the dirty set is empty and otherwise the
\* Manhattan distance from the agent to a nearest dirty cell plus the number
\* of dirty cells minus 1; it does not depend on grid_size.
C19_HeuristicFormula ==
    \A q \in QueuedHeuristics :
        LET state == q[1]
            h == q[2]
        IN /\ state.dirt_set = {} => h = 0
           /\ state.dirt_set # {} =>
                \E d \in state.dirt_set :
                    /\ \A e \in state.dirt_set :
                          Manhattan(state.robot_pos, d) <= Manhattan(state.robot_pos, e)
                    /\ h = Manhattan(state.robot_pos, d) + Cardinality(state.dirt_set) - 1
           /\ \A n \in 1 .. MaxGrid + 1 : heuristic(state, n) = h

C19_Witness ==
    /\ \E q \in QueuedHeuristics : q[1].dirt_set = {} /\ q[2] = 0
    /\ \E q \in QueuedHeuristics :
          /\ Cardinality(q[1].dirt_set) >= 2
          /\ q[2] >= 2
          /\ \E d \in q[1].dirt_set : Manhattan(q[1].robot_pos, d) > q[2] - Cardinality(q[1].dirt_set) + 1

\* the effect of one (action, next_state) pair on the state it was generated from
FrameOfPair(state, action, next_state) ==
    IF action = "Suck"
    THEN /\ next_state.robot_pos = state.robot_pos
         /\ state.robot_pos \in state.dirt_set
         /\ next_state.dirt_set = state.dirt_set \ {state.robot_pos}
    ELSE /\ next_state.dirt_set = state.dirt_set
         /\ Abs(next_state.robot_pos[1] - state.robot_pos[1])
              + Abs(next_state.robot_pos[2] - state.robot_pos[2]) = 1

\* C20: every movement successor of get_successors has the dirty set of the
\* input state and an agent position that differs by one on exactly one
\* axis; the Suck successor has the same agent position and the input's
\* dirty set minus exactly the agent's cell; the input state is left as it
\* was: the edges recorded after the call still pair it with its successors.
C20_SuccessorFrame ==
    /\ \A s \in SuccessorInputs :
          \A pair \in Pairs(get_successors(s, grid_size)) :
              FrameOfPair(s, pair[1], pair[2])
    /\ \A i \in 1 .. Len(search_tree) :
          /\ FrameOfPair(search_tree[i][1], search_tree[i][2], search_tree[i][3])
          /\ (algo \in FiveSearches) => search_tree[i][1] \in ExploredStates

C20_Witness ==
    /\ pc = "loop"
    /\ \E i \in 1 .. Len(search_tree) :
          /\ search_tree[i][2] = "Suck"
          /\ Cardinality(search_tree[i][1].dirt_set) >= 2
    /\ \E i \in 1 .. Len(search_tree) : search_tree[i][2] = "Left"
    /\ \E s \in FrontierStates :
          s.robot_pos \in s.dirt_set /\ Len(get_successors(s, grid_size)) >= 3

\* C21: no pair returned by get_successors has a next-state equal to the
\* input state, and no action appears in more than one returned pair.
C21_NoSelfLoopNoDuplicateAction ==
    \A s \in SuccessorInputs :
        LET successors == get_successors(s, grid_size)
        IN /\ \A i \in 1 .. Len(successors) : successors[i][2] # s
           /\ \A i, j \in 1 .. Len(successors) :
                 i # j => successors[i][1] # successors[j][1]

\* a state in a corner of a grid with walls on two sides is about to be expanded
C21_Witness ==
    /\ pc = "loop"
    /\ grid_size >= 2
    /\ \E s \in FrontierStates :
          /\ s.robot_pos = <<0, 0>>
          /\ s.robot_pos \in s.dirt_set
          /\ Len(get_successors(s, grid_size)) = 3

\* C22: is_goal(state) is true if and only if the state's dirty set is empty,
\* wherever the agent stands.
C22_GoalIffNoDirt ==
    \A s \in SuccessorInputs :
        \A robot_pos \in Cells(grid_size) :
            is_goal(State(robot_pos, s.dirt_set)) <=> (s.dirt_set = {})

\* a call on a clean board with the agent away from the origin has returned
\* success at the goal test of the initial state
C22_Witness ==
    /\ pc = "done"
    /\ initial_state.dirt_set = {}
    /\ initial_state.robot_pos = <<1, 1>>
    /\ result.success
    /\ result.path = << >>

\* the workers that are between the start of their thread and the end of
\* their finally clause: they execute, or are about to execute or have just
\* executed, a strategy, and they write the progress sink
Workers ==
    {i \in 1 .. Len(threads) :
        threads[i].pc \in {"entry", "strategy", "running", "store", "except",
                          "stop", "finally"}}

\* C23: searches never run concurrently: whatever the interleaving of the
\* Find Path button, the Space key and run_with_algorithm with a running
\* worker, at most one worker thread exists at any time, so at most one
\* thread executes a strategy and at most one writes the progress sink.
C23_OneWorkerAtATime == Cardinality(Workers) <= 1

\* a worker is inside its strategy while the main thread is handling events,
\* with is_searching raised: a Space key now reaches the guard of solve()
C23_Witness ==
    /\ main.pc = "handle_events"
    /\ is_searching
    /\ \E i \in 1 .. Len(threads) : threads[i].pc = "strategy"
    /\ search_result # None

\* a sequence with one more element before its i-th
Inserted(items, i, x) == SubSeq(items, 1, i - 1) \o << x >> \o SubSeq(items, i, Len(items))

\* the action sequences replayed: the path returned, and the path returned
\* with any one action put in at any place (legal there or not)
ReplayedPaths ==
    {result.path} \cup
    {Inserted(result.path, i, action) : i \in 1 .. Len(result.path) + 1, action \in Action}

\* get_state_path has a pair for the i-th action of the sequence
Found(spath, states, i, n) ==
    \E pair \in Pairs(get_successors(states[i], n)) : pair[1] = spath[i]

\* C24: get_state_path(path, start) returns exactly len(path) + 1 states
\* beginning with start; for an action that matches no successor of the
\* current state it appends the current state again and goes on with the
\* next action (it is a total function: nothing is raised or reported).
C24_StatePathKeepsLength ==
    Returned =>
        \A spath \in ReplayedPaths :
            LET states == get_state_path(spath, initial_state, grid_size)
            IN /\ Len(states) = Len(spath) + 1
               /\ states[1] = initial_state
               /\ \A i \in 1 .. Len(spath) :
                     IF Found(spath, states, i, grid_size)
                     THEN <<spath[i], states[i + 1]>> \in
                              Pairs(get_successors(states[i], grid_size))
                     ELSE states[i + 1] = states[i]

\* a path found from the top row is replayed with an Up put in front: the
\* first step matches no successor, the start state is repeated, and the
\* rest of the path is replayed to a clean board
C24_Witness ==
    /\ Returned
    /\ result.success
    /\ Len(result.path) >= 2
    /\ initial_state.robot_pos[2] = 0
    /\ LET spath == Inserted(result.path, 1, "Up")
           states == get_state_path(spath, initial_state, grid_size)
       IN /\ ~Found(spath, states, 1, grid_size)
          /\ states[2] = states[1]
          /\ states[Len(states)].dirt_set = {}

\* the (state, cost) of the frontier entries of UCS and A-star, in heap order
QueuedCosts ==
    CASE algo = "UCS" -> [i \in 1 .. Len(frontier) |-> <<frontier[i][3], frontier[i][1]>>]
      [] algo = "A*" -> [i \in 1 .. Len(frontier) |-> <<frontier[i][4], frontier[i][3]>>]
      [] OTHER -> << >>

\* C25: UCS and A-star push a child that is already explored or queued only
\* when its new cost is strictly lower than the recorded or queued cost, so
\* the frontier never holds two entries for the same state with the same cost.
C25_NoEqualCostDuplicates ==
    (algo \in {"UCS", "A*"} /\ pc = "loop") =>
        \A i, j \in 1 .. Len(QueuedCosts) :
            i # j => QueuedCosts[i] # QueuedCosts[j]

\* C26: in BFS and DFS, at every loop head, frontier_set is exactly the set
\* of states of the frontier, no state occurs in the frontier twice and no
\* frontier state is in explored; so no state is expanded more than once and
\* nodes_expanded is the size of explored.
C26_FrontierSetMirrorsFrontier ==
    (algo \in {"BFS", "DFS"} /\ pc \in {"loop", "done"}) =>
        /\ pc = "loop" =>
              /\ frontier_set = FrontierStates
              /\ \A i, j \in 1 .. Len(frontier) :
                    i # j => frontier[i][1] # frontier[j][1]
              /\ FrontierStates \cap explored = {}
        /\ nodes_expanded = Cardinality(explored)

\* DFS with the small depth cap is at a loop head after three expansions,
\* with two or more entries queued and one of them deeper than the cap
C26_Witness ==
    /\ algo = "DFS"
    /\ pc = "loop"
    /\ max_depth = SmallDepth
    /\ nodes_expanded >= 3
    /\ Len(frontier) >= 2
    /\ \E i \in 1 .. Len(frontier) : Len(frontier[i][2]) > max_depth

\* C27: Greedy, UCS and A-star never expand the same state twice:
\* nodes_expanded is the number of distinct states in explored at every loop
\* head and return, and no queued entry of UCS or A-star would replace the
\* cost recorded for a state already explored (the re-expansion branch is
\* never taken).
C27_NoStateExpandedTwice ==
    (algo \in {"Greedy", "UCS", "A*"} /\ pc \in {"loop", "done"}) =>
        /\ nodes_expanded = Cardinality(ExploredStates)
        /\ \A i \in 1 .. Len(QueuedCosts) :
              QueuedCosts[i][1] \in DOMAIN explored =>
                  explored[QueuedCosts[i][1]] <= QueuedCosts[i][2]

\* UCS is at a loop head with an entry queued for a state it has already
\* expanded: the pop of that entry has to be skipped
C27_Witness ==
    /\ algo = "UCS"
    /\ pc = "loop"
    /\ nodes_expanded >= 3
    /\ \E i \in 1 .. Len(QueuedCosts) : QueuedCosts[i][1] \in DOMAIN explored

PriorityQueues == {"UCS", "Greedy", "A*"}

\* entry a of a heap is popped before entry b: lower priority, or equal
\* priority and pushed earlier
Before(a, b) == a[1] < b[1] \/ (a[1] = b[1] /\ a[2] < b[2])

\* a second run of the strategy on the same inputs
SecondRun ==
    CASE algo = "UCS" -> ucs(initial_state, grid_size)
      [] algo = "Greedy" -> greedy(initial_state, grid_size)
      [] OTHER -> astar(initial_state, grid_size)

\* the counters of the queued entries increase in insertion order and none
\* is above the counter of the call
CountersIncrease ==
    (algo \in PriorityQueues /\ pc = "loop") =>
        /\ \A i, j \in 1 .. Len(frontier) : i < j => frontier[i][2] < frontier[j][2]
        /\ \A i \in 1 .. Len(frontier) : frontier[i][2] <= counter

\* a pop takes the entry that is before every other entry of the heap
PopTakesFirst ==
    (algo \in PriorityQueues /\ pc = "loop" /\ frontier' # frontier) =>
        \E i \in 1 .. Len(frontier) :
            /\ \A j \in 1 .. Len(frontier) : j # i => Before(frontier[i], frontier[j])
            /\ Len(frontier') >= Len(frontier) - 1
            /\ SubSeq(frontier', 1, Len(frontier) - 1) = Remove(frontier, i)

\* a run the deadline did not cut returns what a second run returns
SameAsSecondRun ==
    (algo \in PriorityQueues /\ Returned /\ result.algorithm_name # TimeoutName) =>
        /\ result.path = SecondRun.path
        /\ result.nodes_expanded = SecondRun.nodes_expanded

\* C28: in UCS, Greedy and A-star the insertion counter is strictly
\* increasing and unique, entries of equal priority are popped in insertion
\* order, and so two runs on identical inputs (that the deadline does not
\* cut) return the same path and the same nodes_expanded.
C28_TiesPopInInsertionOrder ==
    /\ [](CountersIncrease /\ SameAsSecondRun)
    /\ [][PopTakesFirst]_vars

\* A-star is at a loop head with two queued entries of the least priority:
\* the next pop is decided by the counter
C28_Witness ==
    /\ algo = "A*"
    /\ pc = "loop"
    /\ nodes_expanded >= 2
    /\ \E i, j \in 1 .. Len(frontier) :
          /\ i # j
          /\ frontier[i][1] = frontier[j][1]
          /\ \A k \in 1 .. Len(frontier) : frontier[i][1] <= frontier[k][1]

\* the place of an action in the canonical order
CanonicalRank(action) ==
    CASE action = "Up" -> 1
      [] action = "Down" -> 2
      [] action = "Left" -> 3
      [] action = "Right" -> 4
      [] OTHER -> 5

\* the action is legal in the state: a move that stays in the grid, or Suck
\* on a dirty cell
Legal(state, action, n) ==
    LET x == state.robot_pos[1]
        y == state.robot_pos[2]
    IN CASE action = "Up" -> y - 1 >= 0
         [] action = "Down" -> y + 1 < n
         [] action = "Left" -> x - 1 >= 0
         [] action = "Right" -> x + 1 < n
         [] OTHER -> state.robot_pos \in state.dirt_set

\* C29: get_successors returns its pairs in the canonical order Up, Down,
\* Left, Right, Suck: the actions of the list are exactly the legal actions
\* of the state, each once, in that order.
C29_CanonicalOrder ==
    \A s \in SuccessorInputs :
        LET successors == get_successors(s, grid_size)
        IN /\ \A i, j \in 1 .. Len(successors) :
                 i < j => CanonicalRank(successors[i][1]) < CanonicalRank(successors[j][1])
           /\ \A action \in Action :
                 Legal(s, action, grid_size) <=>
                     \E i \in 1 .. Len(successors) : successors[i][1] = action

\* a dirty far corner of the grid is about to be expanded: its successor
\* list is Up, Left, Suck
C29_Witness ==
    /\ pc = "loop"
    /\ grid_size = 2
    /\ \E s \in FrontierStates :
          /\ s.robot_pos = <<1, 1>>
          /\ s.robot_pos \in s.dirt_set
          /\ LET successors == get_successors(s, grid_size)
             IN /\ Len(successors) = 3
                /\ successors[1][1] = "Up"
                /\ successors[2][1] = "Left"
                /\ successors[3][1] = "Suck"

\* the cadence of the strategy called
Cadence == IF algo = "Nearest Neighbor" THEN NnProgressEvery ELSE ProgressEvery

\* the step is a call of progress.update: the counters of the sink change
Updated == progress' # progress

\* C30: each of the six strategies calls progress.update exactly when
\* nodes_expanded has just become a positive multiple of its cadence, and at
\* no other time; the call passes the new nodes_expanded, so the values
\* passed in successive calls are strictly increasing.
C30_ProgressCadence ==
    [][/\ Updated <=> /\ nodes_expanded' # nodes_expanded
                      /\ nodes_expanded' > 0
                      /\ nodes_expanded' % Cadence = 0
       /\ Updated => /\ progress'.nodes_explored = nodes_expanded'
                     /\ progress'.nodes_explored > progress.nodes_explored]_vars

\* BFS has reported twice and has expanded a state since its second report
C30_Witness ==
    /\ algo = "BFS"
    /\ pc = "loop"
    /\ progress.nodes_explored = 2 * ProgressEvery
    /\ nodes_expanded > progress.nodes_explored

\* the step is a call of search_progress.update: the counters change and the
\* sink is neither started nor stopped
SinkUpdated ==
    /\ search_progress'.is_active = search_progress.is_active
    /\ search_progress'.algorithm_name = search_progress.algorithm_name
    /\ search_progress' # search_progress

\* the step clears is_searching
SearchingCleared == is_searching /\ ~is_searching'

\* C31: in the search worker start() comes before the first update and
\* stop() after the last one, on the normal and on the exception path, and
\* is_searching is cleared only after stop(): every update finds the sink
\* active, the sink is inactive whenever is_searching is false, and every
\* started search is eventually followed by stop() and is_searching = false.
C31_ProgressLifecycle ==
    /\ [](~is_searching => ~search_progress.is_active)
    /\ [][/\ SinkUpdated => search_progress.is_active
          /\ SearchingCleared => ~search_progress.is_active]_vars
    /\ (search_progress.is_active ~> ~search_progress.is_active)
    /\ (is_searching ~> ~is_searching)

\* a worker has started the sink, reported, stopped the sink and is about to
\* clear is_searching
C31_Witness ==
    /\ is_searching
    /\ ~search_progress.is_active
    /\ search_progress.nodes_explored > 0
    /\ \E i \in 1 .. Len(threads) :
          threads[i].pc = "finally" /\ threads[i].result.success

\* C32: depth-first search is complete within its depth cap: whenever a
\* solution of at most max_depth actions exists, dfs called with that
\* max_depth returns success = true.
C32_DfsCompleteWithinCap ==
    (Returned /\ algo = "DFS" /\ MinActions(initial_state, grid_size) \in 0 .. max_depth) =>
        result.success

\* C33: A-star returns a minimum-length path: on every input on which A-star
\* and BFS both return success = true, the two paths have the same length.
C33_AstarAsShortAsBfs ==
    (Returned /\ algo = "A*" /\ result.success /\ bfs(initial_state, grid_size).success) =>
        Len(result.path) = Len(bfs(initial_state, grid_size).path)

C33_Witness ==
    /\ Returned
    /\ algo = "A*"
    /\ result.success
    /\ bfs(initial_state, grid_size).success
    /\ Cardinality(initial_state.dirt_set) >= 2
    /\ Len(result.path) >= 3
    /\ Len(result.path) = Len(bfs(initial_state, grid_size).path)

\* C34: result handoff between worker and event loop: a result that a
\* finished worker has stored in pending_search_result stays there until
\* update() takes it, and the step that takes it installs it as
\* search_result; no step clears or overwrites a stored result otherwise.
C34_StoredResultReachesUpdate ==
    [][(pending_search_result # None /\ pending_search_result' # pending_search_result) =>
          /\ main.pc = "update"
          /\ search_result' = pending_search_result
          /\ pending_search_result' = None]_vars

\* C35: the world is frozen while a search is in flight: when update()
\* installs the path of a successful result as solution_path, the world's
\* (robot_pos, dirt_set) is the state the search started from.
C35_WorldFrozenDuringSearch ==
    [][(/\ main.pc = "update"
        /\ pending_search_result # None
        /\ pending_search_result[1].success
        /\ solution_path' = pending_search_result[1].path) =>
          Some(get_state(world)) = search_initial_state]_vars

\* C36: after any sequence of VacuumWorld operations on a world created with
\* grid_size >= 1, robot_pos and every cell of dirt_set lie inside the grid,
\* and set_robot_position and add_dirt leave the world unchanged when their
\* argument lies outside the grid.
C36_WorldStaysInGrid ==
    /\ InWorld(world, world.robot_pos)
    /\ \A c \in world.dirt_set : InWorld(world, c)
    /\ \A cell \in ArgCells :
          ~InWorld(world, cell) =>
              /\ set_robot_position(world, cell) = world
              /\ add_dirt(world, cell) = world

\* a world shrunk to the smallest grid with the agent and dirt in its far corner
C36_Witness ==
    /\ world.grid_size = MIN_GRID_SIZE
    /\ world.robot_pos = <<MIN_GRID_SIZE - 1, MIN_GRID_SIZE - 1>>
    /\ world.dirt_set = {<<MIN_GRID_SIZE - 1, MIN_GRID_SIZE - 1>>}
    /\ world.total_cost > 0

\* the step is a call of execute_action(a): only it appends to action_history
Executed(a) == world'.action_history = Append(world.action_history, a)

\* the successor states get_successors lists for action a
SuccessorsFor(a) ==
    LET successors == get_successors(get_state(world), world.grid_size)
    IN {successors[i][2] : i \in {j \in 1 .. Len(successors) : successors[j][1] = a}}

\* C37: execute_action agrees with get_successors: when get_successors lists
\* (a, s') for the world's state, execute_action(a) moves the world to s';
\* when it lists no pair for a, execute_action leaves robot_pos and dirt_set
\* unchanged; either way total_cost grows by 1, a is appended to
\* action_history and the value returned is true iff no dirt is left.
C37_ExecuteAgreesWithSuccessors ==
    [][\A a \in Action :
         Executed(a) =>
           /\ \A next_state \in SuccessorsFor(a) : get_state(world') = next_state
           /\ SuccessorsFor(a) = {} => get_state(world') = get_state(world)
           /\ world'.total_cost = world.total_cost + 1
           /\ execute_action_returns(world, a) <=> (world'.dirt_set = {})]_vars

\* a move into a wall on a world with dirt has been executed
C37_Witness ==
    /\ world.action_history = <<"Left">>
    /\ world.total_cost = 1
    /\ world.robot_pos = <<0, 0>>
    /\ world.dirt_set # {}

\* k copies of an action
Repeat(action, k) == [i \in 1 .. k |-> action]

\* the segment from cell from to the dirty cell target: every horizontal move,
\* then every vertical move, then one Suck
Segment(from, target) ==
    Repeat(IF from[1] < target[1] THEN "Right" ELSE "Left", Abs(from[1] - target[1]))
    \o Repeat(IF from[2] < target[2] THEN "Down" ELSE "Up", Abs(from[2] - target[2]))
    \o <<"Suck">>

\* spath is one segment per cell of dirt, each to a cell of dirt at minimal
\* Manhattan distance from where the segment before it ended
RECURSIVE Segmented(_, _, _)
Segmented(spath, from, dirt) ==
    IF dirt = {} THEN spath = << >>
    ELSE \E target \in dirt :
           /\ \A other \in dirt : Manhattan(from, target) <= Manhattan(from, other)
           /\ Len(spath) >= Len(Segment(from, target))
           /\ SubSeq(spath, 1, Len(Segment(from, target))) = Segment(from, target)
           /\ Segmented(SubSeq(spath, Len(Segment(from, target)) + 1, Len(spath)),
                        target, dirt \ {target})

\* the lengths a path of one segment per cell of dirt, each to a nearest
\* cell, can have: the number of cells plus the distances walked
RECURSIVE SegmentsLength(_, _)
SegmentsLength(from, dirt) ==
    IF dirt = {} THEN {0}
    ELSE UNION {{1 + Manhattan(from, target) + rest : rest \in SegmentsLength(target, dirt \ {target})} :
                   target \in {c \in dirt : \A other \in dirt :
                                   Manhattan(from, c) <= Manhattan(from, other)}}

\* C38: the path of Nearest Neighbor is one segment per initially dirty cell:
\* each segment goes to a remaining dirty cell at minimal Manhattan distance
\* from the agent, with every horizontal move first, then every vertical
\* move, then one Suck, and on its way the agent stands on no other dirty
\* cell; so len(path) is the number of dirty cells plus the distances walked,
\* nodes_expanded = len(path), and remaining_dirt is the dirty set of
\* current_state at every head of the outer loop.
C38_NearestNeighborSegments ==
    (algo = NN /\ pc # "start") =>
        /\ nodes_expanded = Len(path)
        /\ pc = "outer" => remaining_dirt = current_state.dirt_set
        /\ pc = "walk" =>
              /\ nearest_dirt \in remaining_dirt
              /\ \A other \in remaining_dirt :
                    Manhattan(current_state.robot_pos, nearest_dirt)
                        <= Manhattan(current_state.robot_pos, other)
              /\ current_state.robot_pos # nearest_dirt =>
                    current_state.robot_pos \notin current_state.dirt_set
        /\ Returned =>
              /\ Segmented(result.path, initial_state.robot_pos, initial_state.dirt_set)
              /\ Len(result.path) \in
                    SegmentsLength(initial_state.robot_pos, initial_state.dirt_set)
              /\ result.nodes_expanded = Len(result.path)

\* a returned path of three segments, one of them with a horizontal and a
\* vertical move
C38_Witness ==
    /\ algo = NN
    /\ Returned
    /\ Cardinality(initial_state.dirt_set) = 3
    /\ Len(result.path) >= 6
    /\ \E i \in 1 .. Len(result.path) - 2 :
          /\ result.path[i] \in {"Left", "Right"}
          /\ result.path[i + 1] \in {"Up", "Down"}
          /\ result.path[i + 2] = "Suck"

====
